---- MODULE Spec2Model ----
(***************************************************************************)
(* Payslip extraction and consolidation (server/pdf-extractor.ts,          *)
(* server/rh-extractor.ts, server/routes.ts, server/storage.ts).           *)
(*                                                                         *)
(* Text is modelled as it is scanned by the regular expressions of the     *)
(* extractors: a string is a sequence of one-character strings, a line is  *)
(* the sequence of its whitespace-separated tokens, a page is a sequence   *)
(* of lines.  Amounts are held in hundredths (the value 12.3 is 1230).     *)
(***************************************************************************)
EXTENDS Integers, Sequences, FiniteSets, TLC

(***************************************************************************)
(* Characters and strings                                                  *)
(***************************************************************************)
Digits == {"0", "1", "2", "3", "4", "5", "6", "7", "8", "9"}

Letters ==
    {"A", "B", "C", "D", "E", "F", "G", "H", "I", "J", "K", "L", "M", "N", "O",
     "P", "Q", "R", "S", "T", "U", "V", "W", "X", "Y", "Z",
     "a", "b", "c", "d", "e", "f", "g", "h", "i", "j", "k", "l", "m", "n", "o",
     "p", "q", "r", "s", "t", "u", "v", "w", "x", "y", "z"}

\* [\d\.,] : the characters of a value text
ValueChars == Digits \cup {".", ","}

\* the description class of the ERP patterns, [A-Za-z0-9\.\s-] and the
\* accented letters, without the white space (tokens hold none); the texts
\* of the model are unaccented
DescChars == Letters \cup Digits \cup {".", "-"}

DigitVal(ch) ==
    CASE ch = "0" -> 0 [] ch = "1" -> 1 [] ch = "2" -> 2 [] ch = "3" -> 3
      [] ch = "4" -> 4 [] ch = "5" -> 5 [] ch = "6" -> 6 [] ch = "7" -> 7
      [] ch = "8" -> 8 [] ch = "9" -> 9

DigitChar(n) == <<"0", "1", "2", "3", "4", "5", "6", "7", "8", "9">>[n + 1]

Range(f) == {f[i] : i \in DOMAIN f}

AllIn(c, S) == \A i \in 1..Len(c) : c[i] \in S

\* the longest prefix of c made of characters of S
RECURSIVE Prefix(_, _)
Prefix(c, S) ==
    IF c = <<>> \/ Head(c) \notin S THEN <<>>
    ELSE <<Head(c)>> \o Prefix(Tail(c), S)

RECURSIVE IntVal(_)
IntVal(d) ==
    IF d = <<>> THEN 0
    ELSE IntVal(SubSeq(d, 1, Len(d) - 1)) * 10 + DigitVal(d[Len(d)])

\* all tokens of a page, in text order
RECURSIVE Flatten(_)
Flatten(lines) ==
    IF lines = <<>> THEN <<>> ELSE Head(lines) \o Flatten(Tail(lines))

\* the text of a description: its words with one space between them
RECURSIVE Joined(_)
Joined(words) ==
    IF words = <<>> THEN <<>>
    ELSE IF Len(words) = 1 THEN words[1]
    ELSE words[1] \o <<" ">> \o Joined(Tail(words))

(***************************************************************************)
(* Value parsing                                                           *)
(***************************************************************************)
\* the result of parseFloat on a text that holds no number
NaN == -1

\* String.prototype.replace(/\./g, '')
StripDots(c) == SelectSeq(c, LAMBDA ch : ch # ".")

\* String.prototype.replace(',', '.') : a string pattern replaces the
\* first occurrence only
RECURSIVE ReplaceFirstComma(_)
ReplaceFirstComma(c) ==
    IF c = <<>> THEN <<>>
    ELSE IF Head(c) = "," THEN <<".">> \o Tail(c)
    ELSE <<Head(c)>> \o ReplaceFirstComma(Tail(c))

\* valueStr.replace(/\./g, '').replace(',', '.')
CleanValue(c) == ReplaceFirstComma(StripDots(c))

\* hundredths held by the fraction digits fp (the digits after the second
\* are beyond the model's resolution)
Hundredths(fp) ==
    (IF Len(fp) >= 1 THEN DigitVal(fp[1]) * 10 ELSE 0)
    + (IF Len(fp) >= 2 THEN DigitVal(fp[2]) ELSE 0)

\* parseFloat: the longest prefix digits[.digits]; NaN when it holds no digit
parseFloat(c) ==
    LET ip == Prefix(c, Digits)
        rest == SubSeq(c, Len(ip) + 1, Len(c))
        fp == IF rest # <<>> /\ Head(rest) = "."
              THEN Prefix(Tail(rest), Digits) ELSE <<>>
    IN IF ip = <<>> /\ fp = <<>> THEN NaN
       ELSE IntVal(ip) * 100 + Hundredths(fp)

isNaN(v) == v = NaN

(***************************************************************************)
(* ERP line items: extractERPPayrollItems (pdf-extractor.ts)               *)
(***************************************************************************)
\* the marker R$ as a token of its own
IsCur(t) == t = <<"R", "$">>

\* the token begins with [\d\.,]+
StartsValue(t) == t # <<>> /\ Head(t) \in ValueChars

\* \b(\d{4})\b followed by white space: a run of exactly four digits that
\* ends the token and has no word character before it
HasCode4(t) ==
    /\ Len(t) >= 4
    /\ AllIn(SubSeq(t, Len(t) - 3, Len(t)), Digits)
    /\ (Len(t) = 4 \/ t[Len(t) - 4] \notin (Digits \cup Letters))

Code4(t) == SubSeq(t, Len(t) - 3, Len(t))

\* the tokens line[a..b] all lie in the description class
DescRun(line, a, b) == \A m \in a..b : AllIn(line[m], DescChars)

Max(S) == CHOOSE x \in S : \A y \in S : y <= x

Min(S) == CHOOSE x \in S : \A y \in S : x <= y

\* patternMain matched with the code at token i: the index of the R$ that
\* ends the description, 0 when it does not match there
MainEnd(line, i) ==
    LET js == {j \in (i + 2)..(Len(line) - 1) :
                  /\ IsCur(line[j])
                  /\ DescRun(line, i + 1, j - 1)
                  /\ StartsValue(line[j + 1])}
    IN IF js = {} THEN 0 ELSE Max(js)

\* patternAlt matched with the code at token i: the index of the token the
\* trailing [\d\.,]+ matches (the description is greedy), 0 when none
AltEnd(line, i) ==
    LET js == {j \in (i + 2)..Len(line) :
                  DescRun(line, i + 1, j - 1) /\ StartsValue(line[j])}
    IN IF js = {} THEN 0 ELSE Max(js)

\* line.match(patternMain), else line.match(patternAlt): the leftmost match
ERPLineMatch(line) ==
    LET mainIs == {i \in 1..Len(line) : HasCode4(line[i]) /\ MainEnd(line, i) # 0}
        altIs == {i \in 1..Len(line) : HasCode4(line[i]) /\ AltEnd(line, i) # 0}
    IN IF mainIs # {} THEN [i |-> Min(mainIs), j |-> MainEnd(line, Min(mainIs))]
       ELSE IF altIs # {} THEN [i |-> Min(altIs), j |-> AltEnd(line, Min(altIs))]
       ELSE [i |-> 0, j |-> 0]

\* line.match(/R\$\s+([\d\.,]+)/), cleaned; '0' when the line has no marker
ERPValueStr(line) ==
    LET ps == {p \in 1..(Len(line) - 1) : IsCur(line[p]) /\ StartsValue(line[p + 1])}
    IN IF ps = {} THEN <<"0">>
       ELSE CleanValue(Prefix(line[Min(ps) + 1], ValueChars))

\* valueStr || '0'
OrZero(c) == IF c = <<>> THEN <<"0">> ELSE c

\* a filter that lets every code through
includesAny(codes, code) == TRUE

\* codes.includes(code)
includes(codes, code) == \E k \in 1..Len(codes) : codes[k] = code

\* items.findIndex(item => item.code === code), 0 for -1
findIndex(items, code) ==
    LET ks == {k \in 1..Len(items) : items[k].code = code}
    IN IF ks = {} THEN 0 ELSE Min(ks)

\* items[existingIndex].value += value, or items.push({code, description, value})
SumOrPush(items, code, description, value) ==
    LET k == findIndex(items, code)
    IN IF k > 0 THEN [items EXCEPT ![k].value = @ + value]
       ELSE Append(items, [code |-> code, description |-> description, value |-> value])

\* the body of the loop over the lines
ERPItem(items, codes, code, description, value) ==
    IF isNaN(value) \/ ~includes(codes, code) THEN items
    ELSE SumOrPush(items, code, description, value)

ERPLineAt(line, codes, items, m) ==
    IF m.i = 0 THEN items
    ELSE ERPItem(items, codes, Code4(line[m.i]), SubSeq(line, m.i + 1, m.j - 1),
                 parseFloat(OrZero(ERPValueStr(line))))

ERPLine(line, codes, items) == ERPLineAt(line, codes, items, ERPLineMatch(line))

RECURSIVE ERPScan(_, _, _)
ERPScan(lines, codes, items) ==
    IF lines = <<>> THEN items
    ELSE ERPScan(Tail(lines), codes, ERPLine(Head(lines), codes, items))

extractERPPayrollItems(text, codes) == ERPScan(text, codes, <<>>)

(***************************************************************************)
(* RH line items of pdf-extractor.ts: extractRHPayrollItems, the branch    *)
(* of its processPDF for source 'RH' (the upload route sends RH documents  *)
(* to rh-extractor.ts instead)                                             *)
(***************************************************************************)
\* \b(\d{3,4})\b followed by white space, with three digits: the case the
\* third pattern adds to the first two
HasCode3(t) ==
    /\ Len(t) >= 3
    /\ AllIn(SubSeq(t, Len(t) - 2, Len(t)), Digits)
    /\ (Len(t) = 3 \/ t[Len(t) - 3] \notin (Digits \cup Letters))

\* the patterns in order: the first two are patternMain and patternAlt of
\* the ERP extractor; then the third with a code of three digits
RHPatternsMatch(line, m) ==
    IF m.i # 0 THEN [i |-> m.i, j |-> m.j, code |-> Code4(line[m.i])]
    ELSE LET is == {i \in 1..Len(line) : HasCode3(line[i]) /\ AltEnd(line, i) # 0}
         IN IF is = {} THEN [i |-> 0, j |-> 0, code |-> <<>>]
            ELSE [i |-> Min(is), j |-> AltEnd(line, Min(is)),
                  code |-> SubSeq(line[Min(is)], Len(line[Min(is)]) - 2, Len(line[Min(is)]))]

\* code.padStart(4, '0')
RECURSIVE padStart4(_)
padStart4(c) == IF Len(c) >= 4 THEN c ELSE padStart4(<<"0">> \o c)

\* line.match(/(\d+[\d\.,]+)$/) in the last token t of the line
EndValue(t) ==
    LET run == {p \in 1..Len(t) : AllIn(SubSeq(t, p, Len(t)), ValueChars)}
        starts == {p \in run : t[p] \in Digits /\ p < Len(t)}
    IN IF starts = {} THEN <<"0">> ELSE SubSeq(t, Min(starts), Len(t))

\* the value text: after the marker R$ if the line has one, else at the end
\* of the line, else '0'; then cleaned
RHValueStr(line) ==
    LET ps == {p \in 1..(Len(line) - 1) : IsCur(line[p]) /\ StartsValue(line[p + 1])}
    IN CleanValue(IF ps # {} THEN Prefix(line[Min(ps) + 1], ValueChars)
                  ELSE IF line = <<>> THEN <<"0">>
                  ELSE EndValue(line[Len(line)]))

RHPatternsLineAt(line, codes, items, m) ==
    IF m.i = 0 THEN items
    ELSE ERPItem(items, codes, padStart4(m.code), SubSeq(line, m.i + 1, m.j - 1),
                 parseFloat(OrZero(RHValueStr(line))))

RECURSIVE RHPatternsScan(_, _, _)
RHPatternsScan(lines, codes, items) ==
    IF lines = <<>> THEN items
    ELSE RHPatternsScan(Tail(lines), codes,
             RHPatternsLineAt(Head(lines), codes, items,
                              RHPatternsMatch(Head(lines), ERPLineMatch(Head(lines)))))

extractRHPayrollItems(text, codes) == RHPatternsScan(text, codes, <<>>)

(***************************************************************************)
(* RH line items: extractPayrollItems (rh-extractor.ts)                    *)
(***************************************************************************)
Seps == {".", ","}

\* the number of (?:[.,]\d{3}) groups that follow position pos of t
RECURSIVE Groups3(_, _)
Groups3(t, pos) ==
    IF /\ pos + 4 <= Len(t)
       /\ t[pos + 1] \in Seps
       /\ AllIn(SubSeq(t, pos + 2, pos + 4), Digits)
    THEN 1 + Groups3(t, pos + 4)
    ELSE 0

\* (?:[.,]\d{2}) matches right after position pos of t
Cents2(t, pos) ==
    /\ pos + 3 <= Len(t)
    /\ t[pos + 1] \in Seps
    /\ AllIn(SubSeq(t, pos + 2, pos + 3), Digits)

\* (\d+(?:[.,]\d{3})*(?:[.,]\d{2})) matched at the start of token t: the
\* text it captures, <<>> when it does not match.  \d+ takes the whole run
\* of digits; the groups of three are greedy and are given back one by one
\* until the two decimals follow.
RHValue(t) ==
    LET n == Len(Prefix(t, Digits))
        gs == {g \in 0..Groups3(t, n) : Cents2(t, n + 4 * g)}
    IN IF n = 0 \/ gs = {} THEN <<>>
       ELSE SubSeq(t, 1, n + 4 * Max(gs) + 3)

\* (?:\d+(?:\.\d{2})?\s+) : a whole token of digits, or digits '.' two digits
IsDays(t) ==
    /\ t # <<>>
    /\ \/ AllIn(t, Digits)
       \/ /\ Len(t) >= 4
          /\ AllIn(SubSeq(t, 1, Len(t) - 3), Digits)
          /\ t[Len(t) - 2] = "."
          /\ AllIn(SubSeq(t, Len(t) - 1, Len(t)), Digits)

\* (\d{2}\.\d{4}) as a whole token
IsMonthCol(t) ==
    /\ Len(t) = 7
    /\ AllIn(SubSeq(t, 1, 2), Digits)
    /\ t[3] = "."
    /\ AllIn(SubSeq(t, 4, 7), Digits)

\* \s*R?\$?\s*(value) from token p on: the captured value text, <<>> if none
ValueAt(line, p) ==
    IF p > Len(line) THEN <<>>
    ELSE IF IsCur(line[p])
    THEN (IF p < Len(line) THEN RHValue(line[p + 1]) ELSE <<>>)
    ELSE RHValue(line[p])

\* what follows the description when it ends before token j, in the order
\* the optional groups are tried: with the day count and the month column,
\* with the day count only, with the month column only, with neither
TailOf(month, text) == [ok |-> text # <<>>, month |-> month, text |-> text]

NoTail == TailOf(<<>>, <<>>)

FirstOk(a, b) == IF a.ok THEN a ELSE b

TailAt(line, j) ==
    LET days == j <= Len(line) /\ IsDays(line[j])
        m1 == j + 1 <= Len(line) /\ IsMonthCol(line[j + 1])
        m0 == j <= Len(line) /\ IsMonthCol(line[j])
    IN FirstOk(IF days /\ m1 THEN TailOf(line[j + 1], ValueAt(line, j + 2)) ELSE NoTail,
       FirstOk(IF days THEN TailOf(<<>>, ValueAt(line, j + 1)) ELSE NoTail,
       FirstOk(IF m0 THEN TailOf(line[j], ValueAt(line, j + 1)) ELSE NoTail,
               TailOf(<<>>, ValueAt(line, j)))))

\* the token the pattern's \bcode\b is looked for in: the code interpolated
\* as it was supplied (the wanted codes of the model occur in the texts only
\* as whole tokens)
CodeToken(t, code) == t = code

\* the pattern matches with the code at token i: some description ends
\* before a token from which the tail matches
CodeAt(line, code, i) ==
    /\ CodeToken(line[i], code)
    /\ \E j \in (i + 2)..Len(line) : TailAt(line, j).ok

\* the token the match has the code at, 0 when the line does not match
CodeIndex(line, code, later) ==
    IF later # {} THEN Min(later)
    ELSE IF line # <<>> /\ CodeAt(line, code, 1) THEN 1 ELSE 0

\* the groups of the match: description, month column, value
RHMatchOf(line, i, j, tail) ==
    [ok |-> TRUE,
     description |-> SubSeq(line, i + 1, j - 1),
     month |-> tail.month,
     value |-> parseFloat(CleanValue(tail.text))]

RHMatchEnd(line, i, j) == RHMatchOf(line, i, j, TailAt(line, j))

RHMatchAt(line, i) ==
    IF i = 0 THEN [ok |-> FALSE]
    ELSE RHMatchEnd(line, i, Min({k \in (i + 2)..Len(line) : TailAt(line, k).ok}))

\* line.match(pattern) for one wanted code.  The optional prefix (?:.*?\s)?
\* is tried before it is skipped, so an occurrence of the code after the
\* first token is taken before one at the start of the line; the prefix is
\* lazy, so the earliest such occurrence; the description is lazy, so it
\* ends at the first token from which the tail matches.
RHLineMatch(line, code) ==
    RHMatchAt(line, CodeIndex(line, code, {i \in 2..Len(line) : CodeAt(line, code, i)}))

\* the matches of one code over the lines, in line order
\* if (match) ... if (!isNaN(value) && description) matches.push(...)
RHMatchPushed(m) ==
    IF m.ok /\ ~isNaN(m.value) /\ m.description # <<>>
    THEN <<[description |-> m.description, value |-> m.value, month |-> m.month]>>
    ELSE <<>>

RECURSIVE RHMatches(_, _)
RHMatches(lines, code) ==
    IF lines = <<>> THEN <<>>
    ELSE RHMatchPushed(RHLineMatch(Head(lines), code)) \o RHMatches(Tail(lines), code)

\* monthGroups.get(match.month)?.value || 0
GroupValue(groups, month) ==
    LET ks == {k \in 1..Len(groups) : groups[k].month = month}
    IN IF ks = {} THEN 0 ELSE groups[Min(ks)].value

\* one step of matches.forEach: the month's entry is set when the match is
\* larger than the entry (a Map keeps the place of a key it already holds)
GroupStep(groups, match) ==
    LET ks == {k \in 1..Len(groups) : groups[k].month = match.month}
    IN IF match.value > GroupValue(groups, match.month)
       THEN IF ks = {} THEN Append(groups, match)
            ELSE [groups EXCEPT ![Min(ks)] = match]
       ELSE groups

RECURSIVE monthGroups(_, _)
monthGroups(matches, groups) ==
    IF matches = <<>> THEN groups
    ELSE monthGroups(Tail(matches), GroupStep(groups, Head(matches)))

\* monthGroups.forEach: the first entry holding the largest value
RECURSIVE MaxGroup(_, _)
MaxGroup(groups, best) ==
    IF groups = <<>> THEN best
    ELSE MaxGroup(Tail(groups),
                  IF Head(groups).value > best.value
                  THEN [value |-> Head(groups).value,
                        description |-> Head(groups).description]
                  ELSE best)

\* the item pushed for one wanted code, if any
RHCodePushed(code, best) ==
    IF best.value > 0
    THEN <<[code |-> code, description |-> best.description, value |-> best.value]>>
    ELSE <<>>

RHCodeItems(lines, code) ==
    RHCodePushed(code, MaxGroup(monthGroups(RHMatches(lines, code), <<>>),
                                [value |-> 0, description |-> <<>>]))

\* for (const code of codes)
RECURSIVE extractPayrollItems(_, _)
extractPayrollItems(text, codes) ==
    IF codes = <<>> THEN <<>>
    ELSE RHCodeItems(text, Head(codes)) \o extractPayrollItems(text, Tail(codes))

(***************************************************************************)
(* Period resolution: extractDate (pdf-extractor.ts, rh-extractor.ts)      *)
(***************************************************************************)
UpperCase ==
    <<"A", "B", "C", "D", "E", "F", "G", "H", "I", "J", "K", "L", "M", "N", "O",
      "P", "Q", "R", "S", "T", "U", "V", "W", "X", "Y", "Z">>

LowerCase ==
    <<"a", "b", "c", "d", "e", "f", "g", "h", "i", "j", "k", "l", "m", "n", "o",
      "p", "q", "r", "s", "t", "u", "v", "w", "x", "y", "z">>

\* the lower-case letter of an upper-case one
LowerOf(ch) == LowerCase[CHOOSE k \in 1..26 : UpperCase[k] = ch]

toLowerCase(c) ==
    [i \in 1..Len(c) |-> IF c[i] \in Range(UpperCase) THEN LowerOf(c[i]) ELSE c[i]]

\* monthMap of rh-extractor.ts (the texts of the model are unaccented, so
\* the key with the cedilla never matches and is left out)
monthMap ==
    << <<<<"j", "a", "n", "e", "i", "r", "o">>, <<"0", "1">>>>,
       <<<<"f", "e", "v", "e", "r", "e", "i", "r", "o">>, <<"0", "2">>>>,
       <<<<"m", "a", "r", "c", "o">>, <<"0", "3">>>>,
       <<<<"a", "b", "r", "i", "l">>, <<"0", "4">>>>,
       <<<<"m", "a", "i", "o">>, <<"0", "5">>>>,
       <<<<"j", "u", "n", "h", "o">>, <<"0", "6">>>>,
       <<<<"j", "u", "l", "h", "o">>, <<"0", "7">>>>,
       <<<<"a", "g", "o", "s", "t", "o">>, <<"0", "8">>>>,
       <<<<"s", "e", "t", "e", "m", "b", "r", "o">>, <<"0", "9">>>>,
       <<<<"o", "u", "t", "u", "b", "r", "o">>, <<"1", "0">>>>,
       <<<<"n", "o", "v", "e", "m", "b", "r", "o">>, <<"1", "1">>>>,
       <<<<"d", "e", "z", "e", "m", "b", "r", "o">>, <<"1", "2">>>> >>

IsPrefix(a, b) == Len(a) <= Len(b) /\ SubSeq(b, 1, Len(a)) = a

\* the entry of monthMap whose name starts token t (the patterns are
\* case-insensitive), 0 when none
MonthAt(t) ==
    LET lower == toLowerCase(t)
        ks == {k \in 1..Len(monthMap) : IsPrefix(monthMap[k][1], lower)}
    IN IF t = <<>> \/ t[1] \notin Letters \/ ks = {} THEN 0 ELSE Min(ks)

\* (\d{4})\b at the start of c
Year4(c) ==
    /\ Len(c) >= 4
    /\ AllIn(SubSeq(c, 1, 4), Digits)
    /\ (Len(c) = 4 \/ c[5] \notin (Digits \cup Letters))

\* \d{2}\/\d{4} at offset o of token t
DateAt(t, o) ==
    /\ o + 6 <= Len(t)
    /\ AllIn(SubSeq(t, o, o + 1), Digits)
    /\ t[o + 2] = "/"
    /\ AllIn(SubSeq(t, o + 3, o + 6), Digits)

\* the first \d{2}\/\d{4} of token t, <<>> when it holds none
FindDate(t) ==
    LET os == {o \in 1..Len(t) : DateAt(t, o)}
    IN IF os = {} THEN <<>> ELSE SubSeq(t, Min(os), Min(os) + 6)

sData == <<"D", "a", "t", "a">>

sDe == <<"d", "e">>

sReferencia == <<"R", "e", "f", "e", "r", "e", "n", "c", "i", "a", ":">>

\* Data\s+de\s+Refer[êe]ncia: ends at token k
LabelEnds(toks, k) ==
    k >= 3 /\ toks[k - 2] = sData /\ toks[k - 1] = sDe /\ toks[k] = sReferencia

\* `${month}/${year}` of new Date(), the month padded to two digits
RECURSIVE NumStr(_)
NumStr(n) ==
    IF n < 10 THEN <<DigitChar(n)>> ELSE NumStr(n \div 10) \o <<DigitChar(n % 10)>>

padStart2(c) == IF Len(c) < 2 THEN <<"0">> \o c ELSE c

CurrentDate(now) == padStart2(NumStr(now.month)) \o <<"/">> \o NumStr(now.year)

\* monthNames + '\/\d{4}' at the start of token t: what it matches, <<>> if
\* it does not
NameSlashDigits(t) ==
    IF MonthAt(t) = 0 THEN <<>>
    ELSE LET n == Len(monthMap[MonthAt(t)][1])
         IN IF /\ Len(t) >= n + 5
               /\ t[n + 1] = "/"
               /\ AllIn(SubSeq(t, n + 2, n + 5), Digits)
            THEN SubSeq(t, 1, n + 5) ELSE <<>>

\* monthNames\s*\/\s*\d{4} starting at token m of a line, the '/' set off by
\* white space: what it matches, <<>> if it does not
NameSpacedYear(line, m) ==
    LET t == line[m]
        n == IF MonthAt(t) = 0 THEN 0 ELSE Len(monthMap[MonthAt(t)][1])
        digits4(c) == Len(c) >= 4 /\ AllIn(SubSeq(c, 1, 4), Digits)
    IN IF n = 0 \/ m = Len(line) THEN <<>>
       ELSE IF Len(t) = n /\ line[m + 1] = <<"/">> /\ m + 2 <= Len(line)
               /\ digits4(line[m + 2])
       THEN t \o <<" ", "/", " ">> \o SubSeq(line[m + 2], 1, 4)
       ELSE IF Len(t) = n + 1 /\ t[n + 1] = "/" /\ digits4(line[m + 1])
       THEN t \o <<" ">> \o SubSeq(line[m + 1], 1, 4)
       ELSE IF Len(t) = n /\ Head(line[m + 1]) = "/" /\ digits4(Tail(line[m + 1]))
       THEN t \o <<" ">> \o SubSeq(line[m + 1], 1, 5)
       ELSE <<>>

\* what follows the label on its line: the month name and year of
\* altDateMatchRH (named), or the MM/YYYY of numericDateMatchRH
Found(named, line, m) ==
    IF named THEN NameSpacedYear(line, m) ELSE FindDate(line[m])

\* a pattern that starts with the label and goes on, on the same line
\* (.*?), to the first token that Found accepts: what Found gives there
AfterLabel(text, named) ==
    LET hit(l, m) == /\ \E k \in 1..(m - 1) : LabelEnds(text[l], k)
                     /\ Found(named, text[l], m) # <<>>
        ls == {l \in 1..Len(text) : \E m \in 1..Len(text[l]) : hit(l, m)}
    IN IF ls = {} THEN <<>>
       ELSE LET l == Min(ls)
            IN Found(named, text[l], Min({m \in 1..Len(text[l]) : hit(l, m)}))

\* text.match(/(\d{2})\/(\d{4})/): the first MM/YYYY of the page
GenericDate(toks) ==
    LET dated == {k \in 1..Len(toks) : FindDate(toks[k]) # <<>>}
    IN IF dated = {} THEN <<>> ELSE FindDate(toks[Min(dated)])

\* a resolver that tries the bare MM/YYYY first
extractDateBareFirst(text, source, now) ==
    IF GenericDate(Flatten(text)) # <<>> THEN GenericDate(Flatten(text))
    ELSE CurrentDate(now)

\* extractDate of pdf-extractor.ts.  ERP: the label followed by MM/YYYY,
\* then any MM/YYYY.  RH: the month name followed by /year, returned as it
\* is written; then the label and a month name, '/' and year set off by
\* spaces; then the label and MM/YYYY on its line; then any MM/YYYY.  When
\* nothing matches, the current month.
extractDate(text, source, now) ==
    LET toks == Flatten(text)
        labelled == {k \in 2..Len(toks) : LabelEnds(toks, k - 1) /\ DateAt(toks[k], 1)}
        named == {k \in 1..Len(toks) : NameSlashDigits(toks[k]) # <<>>}
    IN IF source = "ERP" /\ labelled # {}
       THEN SubSeq(toks[Min(labelled)], 1, 7)
       ELSE IF source = "RH" /\ named # {}
       THEN NameSlashDigits(toks[Min(named)])
       ELSE IF source = "RH" /\ AfterLabel(text, TRUE) # <<>>
       THEN AfterLabel(text, TRUE)
       ELSE IF source = "RH" /\ AfterLabel(text, FALSE) # <<>>
       THEN AfterLabel(text, FALSE)
       ELSE IF GenericDate(toks) # <<>>
       THEN GenericDate(toks)
       ELSE CurrentDate(now)

\* [\/\s]* from the rest c of token k on: the place it stops at, white
\* space being what separates the tokens
RECURSIVE SkipSlashes(_, _, _)
SkipSlashes(toks, k, c) ==
    IF c # <<>> /\ Head(c) = "/" THEN SkipSlashes(toks, k, Tail(c))
    ELSE IF c = <<>> /\ k < Len(toks) THEN SkipSlashes(toks, k + 1, toks[k + 1])
    ELSE [k |-> k, c |-> c]

\* the year of the month-name pattern of rh-extractor.ts after the name that
\* starts token k: [\/\s]*(?:de)?[\s]*(\d{4})\b; <<>> when it fails there
NamedYear(toks, k) ==
    LET n == Len(monthMap[MonthAt(toks[k])][1])
        a == SkipSlashes(toks, k, SubSeq(toks[k], n + 1, Len(toks[k])))
        b == IF IsPrefix(sDe, toLowerCase(a.c))
             THEN [k |-> a.k, c |-> SubSeq(a.c, 3, Len(a.c))] ELSE a
        c == IF b.c = <<>> /\ b.k < Len(toks) THEN toks[b.k + 1] ELSE b.c
    IN IF Year4(c) THEN SubSeq(c, 1, 4) ELSE <<>>

\* (\d{2})[\/\s-](\d{4}) starting in token k: inside the token, or its last
\* two digits, a space and the first four digits of the next token
NumericDate(toks, k) ==
    LET t == toks[k]
    IN IF FindDate(t) # <<>>
       THEN SubSeq(FindDate(t), 1, 2) \o <<"/">> \o SubSeq(FindDate(t), 4, 7)
       ELSE IF /\ Len(t) >= 2
               /\ AllIn(SubSeq(t, Len(t) - 1, Len(t)), Digits)
               /\ k + 1 <= Len(toks)
               /\ Len(toks[k + 1]) >= 4
               /\ AllIn(SubSeq(toks[k + 1], 1, 4), Digits)
       THEN SubSeq(t, Len(t) - 1, Len(t)) \o <<"/">> \o SubSeq(toks[k + 1], 1, 4)
       ELSE <<>>

\* extractDate of rh-extractor.ts: the patterns in order, each at its
\* leftmost match; <<>> stands for null
rhExtractDate(text) ==
    LET toks == Flatten(text)
        named == {k \in 1..Len(toks) : MonthAt(toks[k]) # 0 /\ NamedYear(toks, k) # <<>>}
        numeric == {k \in 1..Len(toks) : NumericDate(toks, k) # <<>>}
    IN IF named # {}
       THEN LET k == Min(named)
            IN monthMap[MonthAt(toks[k])][2] \o <<"/">> \o NamedYear(toks, k)
       ELSE IF numeric # {}
       THEN NumericDate(toks, Min(numeric))
       ELSE <<>>

(***************************************************************************)
(* Text extraction and assembly: extractTextFromPDF and processPDF of      *)
(* pdf-extractor.ts (ERP) and of rh-extractor.ts (RH)                      *)
(***************************************************************************)
\* An uploaded document: whether its bytes open as a document, and the text
\* of its pages, each a sequence of lines.

\* simplePdfParse and extractTextFromPDF of pdf-extractor.ts: bytes that do
\* not load give the text "" and one page; a text of two or more pages is
\* cut into that many pieces; otherwise the whole text is the one page
erpExtractTextFromPDF(doc) ==
    LET textByPages ==
            IF doc.corrupt THEN << <<>> >>
            ELSE IF Len(doc.pages) > 1 THEN doc.pages
            ELSE << IF Len(doc.pages) = 1 THEN doc.pages[1] ELSE <<>> >>
    IN [i \in 1..Len(textByPages) |-> [text |-> textByPages[i], pageNumber |-> i]]

\* the text of a page as pdfjs gives it to rh-extractor.ts: the items joined
\* by ' ' and every run of white space made one ' ', so a single line
rhPageText(page) == << Flatten(page) >>

\* extractTextFromPDF of rh-extractor.ts; getDocument rejects bytes that do
\* not open, and the error is thrown on
rhExtractTextFromPDF(doc) ==
    IF doc.corrupt THEN [error |-> TRUE, pages |-> <<>>]
    ELSE [error |-> FALSE,
          pages |-> [i \in 1..Len(doc.pages) |->
                        [text |-> rhPageText(doc.pages[i]), pageNumber |-> i]]]

\* the placeholder pushed when no page gave a result
Placeholder(source, now) ==
    [date |-> CurrentDate(now), items |-> <<>>, source |-> source]

\* a push that does not look at the items
erpPushedAlways(date, items, source) ==
    <<[date |-> date, items |-> items, source |-> source]>>

\* the loop of processPDF of pdf-extractor.ts over the pages
\* if (items.length > 0) results.push({date, items, source})
erpPushed(date, items, source) ==
    IF Len(items) > 0 THEN <<[date |-> date, items |-> items, source |-> source]>>
    ELSE <<>>

\* a loop that puts the record of a page before those of the pages before it
RECURSIVE erpPagesReversed(_, _, _, _)
erpPagesReversed(pages, codes, source, now) ==
    IF pages = <<>> THEN <<>>
    ELSE erpPagesReversed(Tail(pages), codes, source, now)
         \o erpPushed(extractDate(Head(pages).text, source, now),
                      extractERPPayrollItems(Head(pages).text, codes), source)

RECURSIVE erpPages(_, _, _, _)
erpPages(pages, codes, source, now) ==
    IF pages = <<>> THEN <<>>
    ELSE erpPushed(extractDate(Head(pages).text, source, now),
                   extractERPPayrollItems(Head(pages).text, codes), source)
         \o erpPages(Tail(pages), codes, source, now)

\* if (results.length === 0) results.push(the placeholder)
OrPlaceholder(results, source, now) ==
    IF Len(results) = 0 THEN <<Placeholder(source, now)>> ELSE results

\* processPDF of pdf-extractor.ts, called by the route with source 'ERP'
processERPPDF(doc, codes, source, now) ==
    [error |-> FALSE,
     results |-> OrPlaceholder(erpPages(erpExtractTextFromPDF(doc), codes, source, now),
                               source, now)]

\* the loop of processPDF of rh-extractor.ts over the pages
\* if (!date) continue; if (items.length > 0) results.push(...)
rhPushed(date, items) ==
    IF date # <<>> /\ Len(items) > 0
    THEN <<[date |-> date, items |-> items, source |-> "RH"]>>
    ELSE <<>>

RECURSIVE rhPages(_, _)
rhPages(pages, codes) ==
    IF pages = <<>> THEN <<>>
    ELSE rhPushed(rhExtractDate(Head(pages).text),
                  extractPayrollItems(Head(pages).text, codes))
         \o rhPages(Tail(pages), codes)

\* processPDF of rh-extractor.ts
rhProcessed(extracted, codes) ==
    IF extracted.error THEN [error |-> TRUE, results |-> <<>>]
    ELSE [error |-> FALSE, results |-> rhPages(extracted.pages, codes)]

processRHPDF(doc, codes) == rhProcessed(rhExtractTextFromPDF(doc), codes)

(***************************************************************************)
(* Storage: MemStorage (storage.ts).  A Map is the sequence of its values  *)
(* in insertion order.                                                     *)
(***************************************************************************)
VARIABLES payrollData, currentPayrollId, codeGroups, currentCodeGroupId,
          templates, currentTemplateId,
          now, req, res, results, served, session, sessions, inflight

vars == <<payrollData, currentPayrollId, codeGroups, currentCodeGroupId,
          templates, currentTemplateId, now, req, res, results, served, session, sessions, inflight>>

\* the users MemStorage holds: its constructor creates the one default user
\* and no route creates another
users == << [id |-> 1, username |-> "dlinhares", password |-> "123456"] >>

\* MemStorage.getUser: the users with that id, none or one
getUser(id) == SelectSeq(users, LAMBDA user : user.id = id)

\* MemStorage.getUserByUsername: the users of that name, none or one
getUserByUsername(username) == SelectSeq(users, LAMBDA user : user.username = username)

\* a middleware that lets every session in as the default user
requireAuthAny(userId) == 1

\* requireAuth: the id of the user attached to the request as req.user, or
\* 0 when the request is answered 401: the session carries no userId (0),
\* or no user of that id is stored, or the user is not 'dlinhares'
requireAuth(userId) ==
    IF userId = 0 THEN 0
    ELSE IF getUser(userId) = <<>> \/ getUser(userId)[1].username # "dlinhares" THEN 0
    ELSE getUser(userId)[1].id

\* JSON.stringify of the items and JSON.parse of the stored text: the text
\* is kept as a value of its own kind, read back only through parse
stringify(items) == [json |-> items]

parse(codeData) == codeData.json

\* a read that hands back the records of every user
getPayrollDataAll(data, userId) == data

getPayrollDataByUserId(data, userId) ==
    SelectSeq(data, LAMBDA d : d.userId = userId)

getCodeGroupsByUserId(groups, userId) ==
    SelectSeq(groups, LAMBDA g : g.userId = userId)

\* 0 when no group has the id
GroupIndex(groups, id) ==
    LET ks == {k \in 1..Len(groups) : groups[k].id = id}
    IN IF ks = {} THEN 0 ELSE Min(ks)

\* createPayrollData for each result that has a date and items, in order;
\* a record gets the next id
\* a loop that stores every result, the placeholder too
RECURSIVE StoreResultsAll(_, _, _, _, _)
StoreResultsAll(data, nextId, rs, userId, source) ==
    IF rs = <<>> THEN [data |-> data, nextId |-> nextId]
    ELSE StoreResultsAll(
             Append(data, [id |-> nextId, userId |-> userId,
                           date |-> Head(rs).date, source |-> source,
                           codeData |-> stringify(Head(rs).items)]),
             nextId + 1, Tail(rs), userId, source)

\* a loop that keeps one record for a date: a result for a date the user
\* already has a record of is written over that record
RECURSIVE StoreResultsByDate(_, _, _, _, _)
StoreResultsByDate(data, nextId, rs, userId, source) ==
    IF rs = <<>> THEN [data |-> data, nextId |-> nextId]
    ELSE IF Head(rs).date = <<>> \/ Len(Head(rs).items) = 0
    THEN StoreResultsByDate(data, nextId, Tail(rs), userId, source)
    ELSE IF \E k \in 1..Len(data) : data[k].date = Head(rs).date /\ data[k].userId = userId
    THEN StoreResultsByDate(
             [k \in 1..Len(data) |->
                 IF data[k].date = Head(rs).date /\ data[k].userId = userId
                 THEN [data[k] EXCEPT !.source = source,
                                      !.codeData = stringify(Head(rs).items)]
                 ELSE data[k]],
             nextId, Tail(rs), userId, source)
    ELSE StoreResultsByDate(
             Append(data, [id |-> nextId, userId |-> userId,
                           date |-> Head(rs).date, source |-> source,
                           codeData |-> stringify(Head(rs).items)]),
             nextId + 1, Tail(rs), userId, source)

RECURSIVE StoreResults(_, _, _, _, _)
StoreResults(data, nextId, rs, userId, source) ==
    IF rs = <<>> THEN [data |-> data, nextId |-> nextId]
    ELSE LET result == Head(rs)
         IN IF result.date # <<>> /\ Len(result.items) > 0
            THEN StoreResults(
                     Append(data, [id |-> nextId, userId |-> userId,
                                   date |-> result.date, source |-> source,
                                   codeData |-> stringify(result.items)]),
                     nextId + 1, Tail(rs), userId, source)
            ELSE StoreResults(data, nextId, Tail(rs), userId, source)

\* a clear that deletes no record
clearPayrollDataOfNone(data, userId) == data

clearPayrollDataByUserId(data, userId) ==
    SelectSeq(data, LAMBDA d : d.userId # userId)

(***************************************************************************)
(* Consolidation: GET /payroll-data (routes.ts)                            *)
(***************************************************************************)
\* str.split(/[\s,]+/).filter(Boolean): a delimited text is the sequence of
\* the pieces between its separators, the empty ones dropped here
SplitCodes(raw) == SelectSeq(raw, LAMBDA c : c # <<>>)

sVENCIMENTO == <<"V", "E", "N", "C", "I", "M", "E", "N", "T", "O">>

sPREVIDENCIA == <<"P", "R", "E", "V", "I", "D", "E", "N", "C", "I", "A">>

\* the entry of predefinedCodes whose codes occur in the modelled documents,
\* '0002, 00002', and the first entry of the category DESCONTOS
predefinedCodes ==
    << [code |-> << <<"0", "0", "0", "2">>, <<"0", "0", "0", "0", "2">> >>,
        description |-> sVENCIMENTO, category |-> "PROVENTOS"],
       [code |-> << <<"0", "8", "0", "8">>, <<"0", "0", "8", "0", "8">>,
                    <<"7", "P", "4", "0">> >>,
        description |-> sPREVIDENCIA, category |-> "DESCONTOS"] >>

\* map.set(key, value)
MapSet(map, key, value) ==
    [k \in DOMAIN map \cup {key} |-> IF k = key THEN value ELSE map[k]]

RECURSIVE SetCodes(_, _, _)
SetCodes(map, codes, name) ==
    IF codes = <<>> THEN map
    ELSE SetCodes(MapSet(map, Head(codes), name), Tail(codes), name)

RECURSIVE MapPredefined(_, _)
MapPredefined(map, pcs) ==
    IF pcs = <<>> THEN map
    ELSE MapPredefined(SetCodes(map, SplitCodes(Head(pcs).code), Head(pcs).description),
                       Tail(pcs))

RECURSIVE MapGroups(_, _)
MapGroups(map, groups) ==
    IF groups = <<>> THEN map
    ELSE MapGroups(SetCodes(map, SplitCodes(Head(groups).codes), Head(groups).displayName),
                   Tail(groups))

EmptyMap == [k \in {} |-> <<>>]

codeToDisplayMap(groups) == MapGroups(MapPredefined(EmptyMap, predefinedCodes), groups)

\* codeToDisplayMap.get(item.code) || item.code
DisplayOf(map, code) ==
    IF code \in DOMAIN map /\ map[code] # <<>> THEN map[code] ELSE code

\* set.add(x), the set kept in insertion order
SetAdd(seq, x) == IF x \in Range(seq) THEN seq ELSE Append(seq, x)

RECURSIVE uniqueDates(_, _)
uniqueDates(data, acc) ==
    IF data = <<>> THEN acc
    ELSE uniqueDates(Tail(data), SetAdd(acc, Head(data).date))

RECURSIVE AddDisplayCodes(_, _, _)
AddDisplayCodes(items, map, acc) ==
    IF items = <<>> THEN acc
    ELSE AddDisplayCodes(Tail(items), map, SetAdd(acc, DisplayOf(map, Head(items).code)))

RECURSIVE uniqueDisplayCodes(_, _, _)
uniqueDisplayCodes(data, map, acc) ==
    IF data = <<>> THEN acc
    ELSE uniqueDisplayCodes(Tail(data), map,
                            AddDisplayCodes(parse(Head(data).codeData), map, acc))

sDate == <<"d", "a", "t", "e">>

Str(s) == [t |-> "string", v |-> s]

Num(n) == [t |-> "number", v |-> n]

\* a row left as it is, no display code entered
NoZeroRow(row, displayCodes) == row

\* result[displayCode] = 0 for every display code
RECURSIVE ZeroRow(_, _)
ZeroRow(row, displayCodes) ==
    IF displayCodes = <<>> THEN row
    ELSE ZeroRow(MapSet(row, Head(displayCodes), Num(0)), Tail(displayCodes))

\* a step that keeps the value written last
Overwrite(row, displayCode, value) == MapSet(row, displayCode, Num(value))

\* the step for one item: add to a number, else set
Accumulate(row, displayCode, value) ==
    IF displayCode \in DOMAIN row /\ row[displayCode].t = "number"
    THEN MapSet(row, displayCode, Num(row[displayCode].v + value))
    ELSE MapSet(row, displayCode, Num(value))

RECURSIVE AddItems(_, _, _)
AddItems(row, items, map) ==
    IF items = <<>> THEN row
    ELSE AddItems(Accumulate(row, DisplayOf(map, Head(items).code), Head(items).value),
                  Tail(items), map)

RECURSIVE AddRecords(_, _, _)
AddRecords(row, data, map) ==
    IF data = <<>> THEN row
    ELSE AddRecords(AddItems(row, parse(Head(data).codeData), map), Tail(data), map)

\* the row of one date
ConsolidatedRow(date, data, map, displayCodes) ==
    AddRecords(ZeroRow(MapSet(EmptyMap, sDate, Str(date)), displayCodes),
               SelectSeq(data, LAMBDA d : d.date = date), map)

\* the body of the response of GET /payroll-data for the user
Consolidate(allData, allGroups, userId) ==
    LET data == getPayrollDataByUserId(allData, userId)
        map == codeToDisplayMap(getCodeGroupsByUserId(allGroups, userId))
        dates == uniqueDates(data, <<>>)
        displayCodes == uniqueDisplayCodes(data, map, <<>>)
    IN [data |-> [i \in 1..Len(dates) |->
                     ConsolidatedRow(dates[i], data, map, displayCodes)],
        codes |-> displayCodes,
        codeInfo |-> [i \in 1..Len(displayCodes) |->
                         [code |-> displayCodes[i], description |-> displayCodes[i]]]]

(***************************************************************************)
(* The exports: GET /export/json and GET /export/csv                       *)
(***************************************************************************)
\* `R$ ${value.toFixed(2).replace('.', ',')}`
formatCurrency(value) ==
    <<"R", "$", " ">> \o NumStr(value \div 100) \o <<",">>
        \o padStart2(NumStr(value % 100))

\* payrollData.filter(data => data.date === date).flatMap(the items)
RECURSIVE dateItems(_, _)
dateItems(data, date) ==
    IF data = <<>> THEN <<>>
    ELSE (IF Head(data).date = date THEN parse(Head(data).codeData) ELSE <<>>)
         \o dateItems(Tail(data), date)

\* row[item.description] = formattedValue, item after item
RECURSIVE JsonItems(_, _)
JsonItems(row, items) ==
    IF items = <<>> THEN row
    ELSE JsonItems(MapSet(row, Joined(Head(items).description),
                          Str(formatCurrency(Head(items).value))),
                   Tail(items))

\* the body of the response of GET /export/json: a row for each date.  The
\* code groups are read and mapped, and the map is not used for the rows
ExportJsonBody(allData, userId) ==
    LET data == getPayrollDataByUserId(allData, userId)
        dates == uniqueDates(data, <<>>)
    IN [i \in 1..Len(dates) |->
           JsonItems(MapSet(EmptyMap, sDate, Str(dates[i])), dateItems(data, dates[i]))]

\* advantageCodeMap and discountCodeMap: the codes of the predefined entries
\* of a category, each with the description of its entry
RECURSIVE categoryCodeMap(_, _, _)
categoryCodeMap(map, pcs, category) ==
    IF pcs = <<>> THEN map
    ELSE categoryCodeMap(IF Head(pcs).category = category
                         THEN SetCodes(map, Head(pcs).code, Head(pcs).description)
                         ELSE map,
                         Tail(pcs), category)

\* uniqueAdvantages and uniqueDiscounts: the descriptions of the predefined
\* codes of the category, each once, in the order of the codes
RECURSIVE uniqueHeaders(_, _, _)
uniqueHeaders(pcs, category, acc) ==
    IF pcs = <<>> THEN acc
    ELSE uniqueHeaders(Tail(pcs), category,
                       IF Head(pcs).category = category /\ SplitCodes(Head(pcs).code) # <<>>
                       THEN SetAdd(acc, Head(pcs).description) ELSE acc)

\* the value of a cell: the items of the date whose code has the
\* description in the map, or is not in the map and equals the description
RECURSIVE sheetValue(_, _, _)
sheetValue(items, map, description) ==
    IF items = <<>> THEN 0
    ELSE (IF \/ (Head(items).code \in DOMAIN map /\ map[Head(items).code] = description)
             \/ (Head(items).code \notin DOMAIN map /\ Head(items).code = description)
          THEN Head(items).value ELSE 0)
         + sheetValue(Tail(items), map, description)

RECURSIVE sheetTotal(_, _, _)
sheetTotal(items, map, headers) ==
    IF headers = <<>> THEN 0
    ELSE sheetValue(items, map, Head(headers)) + sheetTotal(items, map, Tail(headers))

\* the row of a date: the date, a value for each header, the total
sheetRow(date, items, map, headers) ==
    <<Str(date)>>
        \o [k \in 1..Len(headers) |-> Num(sheetValue(items, map, headers[k]))]
        \o <<Num(sheetTotal(items, map, headers))>>

\* a sheet: the row of headers, then a row for each date
sheet(data, dates, map, headers, total) ==
    << <<Str("DATA")>> \o [k \in 1..Len(headers) |-> Str(headers[k])] \o <<Str(total)>> >>
        \o [i \in 1..Len(dates) |->
               sheetRow(dates[i], dateItems(data, dates[i]), map, headers)]

\* the workbook GET /export/csv sends: the sheets VANTAGENS and DESCONTOS.
\* What the handler collects by display code before them is not written
ExportCsvBody(allData, userId) ==
    LET data == getPayrollDataByUserId(allData, userId)
        dates == uniqueDates(data, <<>>)
    IN [VANTAGENS |-> sheet(data, dates,
                            categoryCodeMap(EmptyMap, predefinedCodes, "PROVENTOS"),
                            uniqueHeaders(predefinedCodes, "PROVENTOS", <<>>),
                            "Total Vantagens"),
        DESCONTOS |-> sheet(data, dates,
                            categoryCodeMap(EmptyMap, predefinedCodes, "DESCONTOS"),
                            uniqueHeaders(predefinedCodes, "DESCONTOS", <<>>),
                            "Total Descontos")]

(***************************************************************************)
(* Requests: the documents, sources and code texts that are uploaded       *)
(***************************************************************************)
c0002 == <<"0", "0", "0", "2">>

c0003 == <<"0", "0", "0", "3">>

sVENC == <<"V", "E", "N", "C">>

sINSS == <<"I", "N", "S", "S">>

sCur == <<"R", "$">>

\* "Data de Referencia: 04/2022"
lnPeriod == <<sData, sDe, sReferencia, <<"0", "4", "/", "2", "0", "2", "2">> >>

\* "FOLHA MENSAL"
lnTitle == << <<"F", "O", "L", "H", "A">>, <<"M", "E", "N", "S", "A", "L">> >>

\* "0002 VENC R$ 100,00" and "0002 VENC R$ 200,00"
ln100 == <<c0002, sVENC, sCur, <<"1", "0", "0", ",", "0", "0">> >>

ln200 == <<c0002, sVENC, sCur, <<"2", "0", "0", ",", "0", "0">> >>

\* "0002 VENC R$ 1.234,56" and "0003 INSS R$ 45,00"
ln1234 == <<c0002, sVENC, sCur, <<"1", ".", "2", "3", "4", ",", "5", "6">> >>

ln45 == <<c0003, sINSS, sCur, <<"4", "5", ",", "0", "0">> >>

\* "0002 VENC R$ 12,3,4": a value text that is not a number
lnBad == <<c0002, sVENC, sCur, <<"1", "2", ",", "3", ",", "4">> >>

\* "2 INSS R$ 350,00" and "02 INSS R$ 350,00": the code printed short
lnShort1 == << <<"2">>, sINSS, sCur, <<"3", "5", "0", ",", "0", "0">> >>

lnShort2 == << <<"0", "2">>, sINSS, sCur, <<"3", "5", "0", ",", "0", "0">> >>

Document(pages) == [corrupt |-> FALSE, pages |-> pages]

\* bytes that do not open as a document
docCorrupt == [corrupt |-> TRUE, pages |-> <<>>]

\* one page, the line of code 0002 twice
docTwice == Document(<< <<lnPeriod, ln100, ln200>> >>)

\* one page with an item line and no period
docNoPeriod == Document(<< <<lnTitle, ln100>> >>)

\* a page with no period, then a page with one
docPages == Document(<< <<lnTitle, ln200>>, <<lnPeriod, ln45>> >>)

\* one page with a period and no line of any code
docNoItems == Document(<< <<lnPeriod, lnTitle>> >>)

\* the values "1.234,56" and "45,00"
docValues == Document(<< <<lnPeriod, ln1234, ln45>> >>)

\* a malformed value, then a well-formed line
docBad == Document(<< <<lnPeriod, lnBad, ln45>> >>)

\* the code of the line printed as "2", and as "02" on the next page
docShort == Document(<< <<lnPeriod, lnShort1>>, <<lnPeriod, lnShort2>> >>)

\* two pages of one period, code 0002 on both
docSame == Document(<< <<lnPeriod, ln100>>, <<lnPeriod, ln200>> >>)

Documents == {docCorrupt, docTwice, docNoPeriod, docPages, docNoItems,
              docValues, docBad, docShort, docSame}

Sources == {"ERP", "RH"}

\* the texts of wanted codes: "0002", "0003, 0002," and "0002 0002"
CodeTexts == { <<c0002>>, <<c0003, c0002, <<>> >>, <<c0002, c0002>> }

\* the requests whose document is processed
Uploads == [file : Documents, source : Sources, codes : CodeTexts]

\* requests the route turns down: a source that is neither, the text "" of
\* codes, and the text "," that holds no code
Refused == { [file |-> docValues, source |-> "CSV", codes |-> <<c0002>>],
             [file |-> docValues, source |-> "ERP", codes |-> << <<>> >>],
             [file |-> docValues, source |-> "RH", codes |-> << <<>>, <<>> >>] }

\* the session cookies of two browsers, and the one of the browser that
\* uploads and reads
Cookies == {1, 2}

Browsers == {1}

\* the bodies of POST /auth/login: the stored user's credentials, a wrong
\* password, a name that is not stored, and a body without a username
Credentials ==
    { [username |-> "dlinhares", password |-> "123456"],
      [username |-> "dlinhares", password |-> "654321"],
      [username |-> "admin", password |-> "123456"],
      [username |-> "", password |-> "123456"] }

(***************************************************************************)
(* The server: storage as MemStorage constructs it, one action per route   *)
(***************************************************************************)
\* the requests served in a run of every route, and in a run of uploads
MaxRequests == 4

MaxUploads == 2

MaxTicks == 1

\* new Date() when the server starts
StartDate == [month |-> 12, year |-> 2026]

\* months gone by since the start
Elapsed(d) == (d.year - StartDate.year) * 12 + d.month - StartDate.month

Init ==
    /\ payrollData = <<>>
    /\ currentPayrollId = 1
    /\ codeGroups = <<>>
    /\ currentCodeGroupId = 1
    /\ templates = <<>>
    /\ currentTemplateId = 1
    /\ now = StartDate
    /\ req = [op |-> "none"]
    /\ res = [status |-> 0]
    /\ results = <<>>
    /\ served = 0
    /\ session = [id |-> 0, userId |-> 0]
    /\ sessions = [c \in Cookies |-> 0]
    /\ inflight = [pc |-> "idle"]

Reply(status, body) == [status |-> status, body |-> body]

\* the calendar month turns
Tick ==
    /\ Elapsed(now) < MaxTicks
    /\ now' = IF now.month = 12 THEN [month |-> 1, year |-> now.year + 1]
              ELSE [month |-> now.month + 1, year |-> now.year]
    /\ UNCHANGED <<payrollData, currentPayrollId, codeGroups, currentCodeGroupId,
                   templates, currentTemplateId,
                   req, res, results, served, session, sessions, inflight>>

\* req.session of a request that carries the cookie c: its userId is the
\* one the session store holds for the cookie, 0 when it holds none
Session(c) == [id |-> c, userId |-> sessions[c]]

\* a request on the session of cookie c is let in by requireAuth, one of at
\* most max
Serve(c, max) ==
    /\ served < max
    /\ requireAuth(sessions[c]) # 0
    /\ session' = Session(c)
    /\ UNCHANGED <<inflight, sessions>>

\* a request to a route behind requireAuth on a session that is not let in
Unauthorized(c) ==
    /\ requireAuth(sessions[c]) = 0
    /\ res' = Reply(401, IF sessions[c] = 0 THEN "Unauthorized - Please login"
                         ELSE "Unauthorized - Invalid user")
    /\ req' = [op |-> "unauthorized", user |-> 0]
    /\ served' = served + 1
    /\ session' = Session(c)
    /\ UNCHANGED <<inflight, sessions>>
    /\ UNCHANGED <<payrollData, currentPayrollId, codeGroups, currentCodeGroupId,
                   now, templates, currentTemplateId, results>>

\* the status of POST /auth/login for a body
LoginStatus(body) ==
    IF body.username = "" \/ body.password = "" THEN 400
    ELSE IF getUserByUsername(body.username) = <<>>
            \/ getUserByUsername(body.username)[1].password # body.password THEN 401
    ELSE 200

\* POST /auth/login on the session of cookie c: req.session.userId = user.id
\* when the credentials are the stored ones
Login(c, body) ==
    /\ sessions' = IF LoginStatus(body) = 200
                   THEN [sessions EXCEPT ![c] = getUserByUsername(body.username)[1].id]
                   ELSE sessions
    /\ res' = Reply(LoginStatus(body),
                    IF LoginStatus(body) = 400 THEN "Username and password are required"
                    ELSE IF LoginStatus(body) = 401 THEN "Invalid credentials"
                    ELSE [id |-> getUserByUsername(body.username)[1].id,
                          username |-> body.username])
    /\ req' = [op |-> "login"]
    /\ session' = [id |-> c, userId |-> sessions'[c]]
    /\ UNCHANGED <<payrollData, currentPayrollId, codeGroups, currentCodeGroupId,
                   now, templates, currentTemplateId, results, served, inflight>>

\* POST /auth/logout on the session of cookie c: req.session.destroy
Logout(c) ==
    /\ sessions' = [sessions EXCEPT ![c] = 0]
    /\ res' = Reply(200, "Logged out successfully")
    /\ req' = [op |-> "logout"]
    /\ session' = [id |-> c, userId |-> 0]
    /\ UNCHANGED <<payrollData, currentPayrollId, codeGroups, currentCodeGroupId,
                   now, templates, currentTemplateId, results, served, inflight>>

\* the outcome of the route body once the codes are split and the document
\* is processed: the storage, the results and the response
Handled(u, r, codesList, out, stored) ==
    IF r.source = "" \/ r.codes = << <<>> >>
    THEN [data |-> payrollData, nextId |-> currentPayrollId, results |-> <<>>,
          res |-> Reply(400, "Source and codes are required")]
    ELSE IF r.source # "ERP" /\ r.source # "RH"
    THEN [data |-> payrollData, nextId |-> currentPayrollId, results |-> <<>>,
          res |-> Reply(400, "Invalid source. Must be 'ERP' or 'RH'")]
    ELSE IF Len(codesList) = 0
    THEN [data |-> payrollData, nextId |-> currentPayrollId, results |-> <<>>,
          res |-> Reply(400, "No valid codes provided")]
    ELSE IF out.error
    THEN [data |-> payrollData, nextId |-> currentPayrollId, results |-> <<>>,
          res |-> Reply(500, "Failed to process PDF")]
    ELSE [data |-> stored.data, nextId |-> stored.nextId, results |-> out.results,
          res |-> Reply(200, IF Len(out.results) > 0 THEN out.results[1]
                             ELSE [date |-> <<>>, items |-> <<>>, source |-> r.source])]

Processed(u, r, codesList, out) ==
    Handled(u, r, codesList, out,
            StoreResults(payrollData, currentPayrollId, out.results, u, r.source))

\* source === 'ERP' ? processERPPDF(...) : processRHPDF(...)
Dispatch(u, r, codesList) ==
    Processed(u, r, codesList,
              IF r.source = "ERP" THEN processERPPDF(r.file, codesList, r.source, now)
              ELSE processRHPDF(r.file, codesList))

\* what POST /process-pdf computes for request r of user u
ProcessPdfOutcome(u, r) == Dispatch(u, r, SplitCodes(r.codes))

\* the route takes the outcome o
Respond(u, r, o) ==
    /\ payrollData' = o.data
    /\ currentPayrollId' = o.nextId
    /\ results' = o.results
    /\ res' = o.res
    /\ req' = [op |-> "process-pdf", user |-> u, file |-> r.file,
               source |-> r.source, codes |-> r.codes]
    /\ served' = served + 1
    /\ UNCHANGED <<codeGroups, currentCodeGroupId, now, templates, currentTemplateId>>

\* POST /process-pdf
ProcessPdf(u, r) == Respond(u, r, ProcessPdfOutcome(u, r))

\* GET /payroll-data
GetPayrollData(u) ==
    /\ res' = Reply(200, Consolidate(payrollData, codeGroups, u))
    /\ req' = [op |-> "payroll-data", user |-> u]
    /\ served' = served + 1
    /\ UNCHANGED <<payrollData, currentPayrollId, codeGroups, currentCodeGroupId,
                   now, templates, currentTemplateId, results>>

\* GET /export/json
ExportJson(u) ==
    /\ res' = Reply(200, ExportJsonBody(payrollData, u))
    /\ req' = [op |-> "export-json", user |-> u]
    /\ served' = served + 1
    /\ UNCHANGED <<payrollData, currentPayrollId, codeGroups, currentCodeGroupId,
                   now, templates, currentTemplateId, results>>

\* GET /export/csv
ExportCsv(u) ==
    /\ res' = Reply(200, ExportCsvBody(payrollData, u))
    /\ req' = [op |-> "export-csv", user |-> u]
    /\ served' = served + 1
    /\ UNCHANGED <<payrollData, currentPayrollId, codeGroups, currentCodeGroupId,
                   now, templates, currentTemplateId, results>>

\* POST /payroll-data/clear
ClearPayrollData(u) ==
    /\ payrollData' = clearPayrollDataByUserId(payrollData, u)
    /\ res' = Reply(200, "All payroll data cleared successfully")
    /\ req' = [op |-> "clear", user |-> u]
    /\ served' = served + 1
    /\ UNCHANGED <<currentPayrollId, codeGroups, currentCodeGroupId, now, templates, currentTemplateId, results>>

\* z.string().min(1) on a field of the body, when the body has it
ValidText(body, field, empty) == field \in DOMAIN body => body[field] # empty

ValidCodeGroup(body) ==
    /\ ValidText(body, "displayName", <<>>)
    /\ ValidText(body, "codes", << <<>> >>)

\* POST /code-groups
CreateCodeGroup(u, body) ==
    /\ req' = [op |-> "create-code-group", user |-> u, body |-> body]
    /\ served' = served + 1
    /\ IF ValidCodeGroup(body)
       THEN LET codeGroup == [id |-> currentCodeGroupId, userId |-> u,
                              displayName |-> body.displayName, codes |-> body.codes]
            IN /\ codeGroups' = Append(codeGroups, codeGroup)
               /\ currentCodeGroupId' = currentCodeGroupId + 1
               /\ res' = Reply(201, codeGroup)
       ELSE /\ res' = Reply(400, "Invalid code group data")
            /\ UNCHANGED <<codeGroups, currentCodeGroupId>>
    /\ UNCHANGED <<payrollData, currentPayrollId, now, templates, currentTemplateId, results>>

\* PUT /code-groups/:id
UpdateCodeGroup(u, id, body) ==
    LET k == GroupIndex(codeGroups, id)
    IN /\ req' = [op |-> "update-code-group", user |-> u, id |-> id, body |-> body]
       /\ served' = served + 1
       /\ IF ~ValidCodeGroup(body)
          THEN /\ res' = Reply(400, "Invalid code group data")
               /\ UNCHANGED codeGroups
          ELSE IF k = 0
          THEN /\ res' = Reply(404, "Code group not found")
               /\ UNCHANGED codeGroups
          ELSE IF codeGroups[k].userId # u
          THEN /\ res' = Reply(403, "Forbidden")
               /\ UNCHANGED codeGroups
          ELSE /\ codeGroups' = [codeGroups EXCEPT ![k] = body @@ codeGroups[k]]
               /\ res' = Reply(200, body @@ codeGroups[k])
       /\ UNCHANGED <<payrollData, currentPayrollId, currentCodeGroupId, now, templates, currentTemplateId, results>>

\* the sequence without its k-th element
Remove(seq, k) == SubSeq(seq, 1, k - 1) \o SubSeq(seq, k + 1, Len(seq))

\* DELETE /code-groups/:id
DeleteCodeGroup(u, id) ==
    LET k == GroupIndex(codeGroups, id)
    IN /\ req' = [op |-> "delete-code-group", user |-> u, id |-> id]
       /\ served' = served + 1
       /\ IF k = 0
          THEN /\ res' = Reply(404, "Code group not found")
               /\ UNCHANGED codeGroups
          ELSE IF codeGroups[k].userId # u
          THEN /\ res' = Reply(403, "Forbidden")
               /\ UNCHANGED codeGroups
          ELSE /\ codeGroups' = Remove(codeGroups, k)
               /\ res' = Reply(200, "Code group deleted successfully")
       /\ UNCHANGED <<payrollData, currentPayrollId, currentCodeGroupId, now, templates, currentTemplateId, results>>

(***************************************************************************)
(* Templates: POST, PUT and DELETE /templates                              *)
(***************************************************************************)
\* the entry 'Vendedor' of predefinedModels
predefinedModels ==
    << [name |-> "Vendedor",
        codes |-> << <<"0", "0", "1">>, <<"5", "0", "1">>, <<"5", "0", "2">>,
                     <<"5", "0", "3">>, <<"5", "0", "4">> >>] >>

\* getModelByName: the models of that name, none or one
getModelByName(name) == SelectSeq(predefinedModels, LAMBDA m : m.name = name)

\* templateSchema.parse: name and codes are texts of at least one character
\* where the body has them
ValidTemplate(body) ==
    /\ ValidText(body, "name", "")
    /\ ValidText(body, "codes", << <<>> >>)

\* the codes of a new template: those of the predefined model the body
\* names, when it names one that exists
finalCodes(body) ==
    IF "modelName" \in DOMAIN body /\ body.modelName # ""
            /\ getModelByName(body.modelName) # <<>>
    THEN getModelByName(body.modelName)[1].codes
    ELSE body.codes

\* POST /templates
CreateTemplate(u, body) ==
    /\ req' = [op |-> "create-template", user |-> u, body |-> body]
    /\ served' = served + 1
    /\ IF ValidTemplate(body)
       THEN LET template == [id |-> currentTemplateId, userId |-> u,
                             name |-> body.name, codes |-> finalCodes(body)]
            IN /\ templates' = Append(templates, template)
               /\ currentTemplateId' = currentTemplateId + 1
               /\ res' = Reply(201, template)
       ELSE /\ res' = Reply(400, "Invalid template data")
            /\ UNCHANGED <<templates, currentTemplateId>>
    /\ UNCHANGED <<payrollData, currentPayrollId, codeGroups, currentCodeGroupId,
                   now, results>>

\* PUT /templates/:id
UpdateTemplate(u, id, body) ==
    LET k == GroupIndex(templates, id)
    IN /\ req' = [op |-> "update-template", user |-> u, id |-> id, body |-> body]
       /\ served' = served + 1
       /\ IF ~ValidTemplate(body)
          THEN /\ res' = Reply(400, "Invalid template data")
               /\ UNCHANGED templates
          ELSE IF k = 0
          THEN /\ res' = Reply(404, "Template not found")
               /\ UNCHANGED templates
          ELSE IF templates[k].userId # u
          THEN /\ res' = Reply(403, "Forbidden")
               /\ UNCHANGED templates
          ELSE /\ templates' = [templates EXCEPT ![k] = body @@ templates[k]]
               /\ res' = Reply(200, body @@ templates[k])
       /\ UNCHANGED <<payrollData, currentPayrollId, codeGroups, currentCodeGroupId,
                      currentTemplateId, now, results>>

\* DELETE /templates/:id
DeleteTemplate(u, id) ==
    LET k == GroupIndex(templates, id)
    IN /\ req' = [op |-> "delete-template", user |-> u, id |-> id]
       /\ served' = served + 1
       /\ IF k = 0
          THEN /\ res' = Reply(404, "Template not found")
               /\ UNCHANGED templates
          ELSE IF templates[k].userId # u
          THEN /\ res' = Reply(403, "Forbidden")
               /\ UNCHANGED templates
          ELSE /\ templates' = Remove(templates, k)
               /\ res' = Reply(200, "Template deleted successfully")
       /\ UNCHANGED <<payrollData, currentPayrollId, codeGroups, currentCodeGroupId,
                      currentTemplateId, now, results>>

\* the bodies sent to POST /templates and to PUT /templates/:id
TemplateBodies ==
    { [name |-> "base", codes |-> <<c0002, c0003>>],
      [name |-> "seller", codes |-> <<c0002>>, modelName |-> "Vendedor"],
      [name |-> "", codes |-> <<c0002>>] }

TemplateUpdates == { [name |-> "other"], [name |-> ""], [codes |-> <<c0003>>] }

\* the bodies sent to POST /code-groups: well-formed ones and one without a name
CreateBodies ==
    { [displayName |-> <<"S", "A", "L">>, codes |-> <<c0002, c0003>>],
      [displayName |-> sDate, codes |-> <<c0003>>],
      [displayName |-> <<>>, codes |-> <<c0003>>] }

\* the bodies sent to PUT /code-groups/:id
UpdateBodies ==
    { [displayName |-> sDate], [displayName |-> <<>>], [codes |-> <<c0002>>] }

\* the documents uploaded while alias groups are edited
GroupedUploads ==
    [file : {docValues, docNoPeriod}, source : Sources, codes : {<<c0002, c0003>>}]

\* every route, over two documents; the requests served are bounded.  Each
\* request comes on a session s and passes requireAuth before its route
Next ==
    \/ \E s \in Browsers, r \in GroupedUploads :
           /\ Serve(s, MaxRequests)
           /\ ProcessPdf(requireAuth(sessions[s]), r)
    \/ \E s \in Browsers :
           /\ Serve(s, MaxRequests)
           /\ GetPayrollData(requireAuth(sessions[s]))
    \/ \E s \in Browsers :
           /\ Serve(s, MaxRequests)
           /\ ExportJson(requireAuth(sessions[s]))
    \/ \E s \in Browsers :
           /\ Serve(s, MaxRequests)
           /\ ExportCsv(requireAuth(sessions[s]))
    \/ \E s \in Browsers :
           /\ Serve(s, MaxRequests)
           /\ ClearPayrollData(requireAuth(sessions[s]))
    \/ \E s \in Browsers, body \in CreateBodies :
           /\ Serve(s, MaxRequests)
           /\ CreateCodeGroup(requireAuth(sessions[s]), body)
    \/ \E s \in Browsers, id \in 1..currentCodeGroupId, body \in UpdateBodies :
           /\ Serve(s, MaxRequests)
           /\ UpdateCodeGroup(requireAuth(sessions[s]), id, body)
    \/ \E s \in Browsers, id \in 1..currentCodeGroupId :
           /\ Serve(s, MaxRequests)
           /\ DeleteCodeGroup(requireAuth(sessions[s]), id)
    \/ \E s \in Browsers :
           served < MaxRequests /\ Unauthorized(s)
    \/ \E s \in Browsers, body \in Credentials : Login(s, body)
    \/ \E s \in Browsers : Logout(s)
    \/ Tick

Spec == Init /\ [][Next]_vars

\* the upload route alone, over all the documents
NextExtract ==
    \/ \E s \in Browsers, r \in Uploads \cup Refused :
           /\ Serve(s, MaxUploads)
           /\ ProcessPdf(requireAuth(sessions[s]), r)
    \/ \E s \in Browsers :
           served < MaxUploads /\ Unauthorized(s)
    \/ \E s \in Browsers, body \in Credentials : Login(s, body)
    \/ \E s \in Browsers : Logout(s)
    \/ Tick

SpecExtract == Init /\ [][NextExtract]_vars

(***************************************************************************)
(* GET /payroll-data taken await by await: the handler reads the payroll   *)
(* records, then the code groups, then builds the response; the other      *)
(* requests of the user are served in between                              *)
(***************************************************************************)
MaxAwait == 4

\* const payrollData = await storage.getPayrollDataByUserId(req.user.id)
GetBegin(u) ==
    /\ inflight.pc # "data" /\ inflight.pc # "groups"
    /\ inflight' = [pc |-> "data", user |-> u,
                    payrollData |-> getPayrollDataByUserId(payrollData, u)]
    /\ served' = served + 1
    /\ UNCHANGED <<payrollData, currentPayrollId, codeGroups, currentCodeGroupId,
                   now, templates, currentTemplateId, req, res, results, sessions>>

\* const codeGroups = await storage.getCodeGroupsByUserId(req.user.id)
GetReadGroups ==
    /\ inflight.pc = "data"
    /\ inflight' = [pc |-> "groups", user |-> inflight.user,
                    payrollData |-> inflight.payrollData,
                    codeGroups |-> getCodeGroupsByUserId(codeGroups, inflight.user)]
    /\ UNCHANGED <<payrollData, currentPayrollId, codeGroups, currentCodeGroupId,
                   now, templates, currentTemplateId, req, res, results, served, session, sessions>>

\* a response whose columns come from the code groups read and whose rows
\* are keyed by the code groups stored when it is built
ConsolidateMixed(allData, allGroups, userId) ==
    [Consolidate(allData, allGroups, userId) EXCEPT
        !.data = Consolidate(allData, codeGroups, userId).data]

\* a handler that builds the rows from the code groups stored at that time
GetRespondMixed ==
    /\ inflight.pc = "groups"
    /\ res' = Reply(200, ConsolidateMixed(inflight.payrollData, inflight.codeGroups,
                                          inflight.user))
    /\ req' = [op |-> "payroll-data", user |-> inflight.user]
    /\ inflight' = [inflight EXCEPT !.pc = "done"]
    /\ UNCHANGED <<payrollData, currentPayrollId, codeGroups, currentCodeGroupId,
                   now, templates, currentTemplateId, results, served, session, sessions>>

\* the rest of the handler, from the map of display codes to res.json
GetRespond ==
    /\ inflight.pc = "groups"
    /\ res' = Reply(200, Consolidate(inflight.payrollData, inflight.codeGroups,
                                     inflight.user))
    /\ req' = [op |-> "payroll-data", user |-> inflight.user]
    /\ inflight' = [inflight EXCEPT !.pc = "done"]
    /\ UNCHANGED <<payrollData, currentPayrollId, codeGroups, currentCodeGroupId,
                   now, templates, currentTemplateId, results, served, session, sessions>>

\* the upload made while the code groups are edited
AwaitUploads == [file : {docValues}, source : {"ERP"}, codes : {<<c0002, c0003>>}]

NextAwait ==
    \/ \E s \in Browsers :
           /\ served < MaxAwait /\ requireAuth(sessions[s]) # 0 /\ session' = Session(s)
           /\ GetBegin(requireAuth(sessions[s]))
    \/ GetReadGroups
    \/ GetRespond
    \/ \E s \in Browsers, r \in AwaitUploads :
           /\ Serve(s, MaxAwait)
           /\ ProcessPdf(requireAuth(sessions[s]), r)
    \/ \E s \in Browsers, body \in CreateBodies :
           /\ Serve(s, MaxAwait)
           /\ CreateCodeGroup(requireAuth(sessions[s]), body)
    \/ \E s \in Browsers, id \in 1..currentCodeGroupId, body \in UpdateBodies :
           /\ Serve(s, MaxAwait)
           /\ UpdateCodeGroup(requireAuth(sessions[s]), id, body)
    \/ \E s \in Browsers, id \in 1..currentCodeGroupId :
           /\ Serve(s, MaxAwait)
           /\ DeleteCodeGroup(requireAuth(sessions[s]), id)
    \/ \E s \in Browsers, body \in Credentials : Login(s, body)
    \/ \E s \in Browsers : Logout(s)

SpecAwait == Init /\ [][NextAwait]_vars

(***************************************************************************)
(* Two browsers: each logs in and out on its own session and asks the      *)
(* routes behind requireAuth                                               *)
(***************************************************************************)
MaxAuth == 2

NextAuth ==
    \/ \E c \in Cookies, body \in Credentials : Login(c, body)
    \/ \E c \in Cookies : Logout(c)
    \/ \E c \in Cookies : served < MaxAuth /\ Unauthorized(c)
    \/ \E c \in Cookies, r \in AwaitUploads :
           /\ Serve(c, MaxAuth)
           /\ ProcessPdf(requireAuth(sessions[c]), r)
    \/ \E c \in Cookies :
           /\ Serve(c, MaxAuth)
           /\ GetPayrollData(requireAuth(sessions[c]))
    \/ \E c \in Cookies :
           /\ Serve(c, MaxAuth)
           /\ ExportJson(requireAuth(sessions[c]))
    \/ \E c \in Cookies :
           /\ Serve(c, MaxAuth)
           /\ ExportCsv(requireAuth(sessions[c]))
    \/ \E c \in Cookies :
           /\ Serve(c, MaxAuth)
           /\ ClearPayrollData(requireAuth(sessions[c]))
    \/ \E c \in Cookies, body \in CreateBodies :
           /\ Serve(c, MaxAuth)
           /\ CreateCodeGroup(requireAuth(sessions[c]), body)
    \/ \E c \in Cookies, id \in 1..currentCodeGroupId, body \in UpdateBodies :
           /\ Serve(c, MaxAuth)
           /\ UpdateCodeGroup(requireAuth(sessions[c]), id, body)
    \/ \E c \in Cookies, id \in 1..currentCodeGroupId :
           /\ Serve(c, MaxAuth)
           /\ DeleteCodeGroup(requireAuth(sessions[c]), id)

SpecAuth == Init /\ [][NextAuth]_vars

(***************************************************************************)
(* One browser keeps templates and code groups beside its payroll records  *)
(***************************************************************************)
MaxOwner == 4

NextOwner ==
    \/ \E c \in Browsers, body \in Credentials : Login(c, body)
    \/ \E c \in Browsers : Logout(c)
    \/ \E c \in Browsers : served < MaxOwner /\ Unauthorized(c)
    \/ \E c \in Browsers, body \in TemplateBodies :
           /\ Serve(c, MaxOwner)
           /\ CreateTemplate(requireAuth(sessions[c]), body)
    \/ \E c \in Browsers, id \in 1..currentTemplateId, body \in TemplateUpdates :
           /\ Serve(c, MaxOwner)
           /\ UpdateTemplate(requireAuth(sessions[c]), id, body)
    \/ \E c \in Browsers, id \in 1..currentTemplateId :
           /\ Serve(c, MaxOwner)
           /\ DeleteTemplate(requireAuth(sessions[c]), id)
    \/ \E c \in Browsers, body \in CreateBodies :
           /\ Serve(c, MaxOwner)
           /\ CreateCodeGroup(requireAuth(sessions[c]), body)
    \/ \E c \in Browsers, id \in 1..currentCodeGroupId, body \in UpdateBodies :
           /\ Serve(c, MaxOwner)
           /\ UpdateCodeGroup(requireAuth(sessions[c]), id, body)
    \/ \E c \in Browsers, id \in 1..currentCodeGroupId :
           /\ Serve(c, MaxOwner)
           /\ DeleteCodeGroup(requireAuth(sessions[c]), id)
    \/ \E c \in Browsers, r \in AwaitUploads :
           /\ Serve(c, MaxOwner)
           /\ ProcessPdf(requireAuth(sessions[c]), r)
    \/ \E c \in Browsers :
           /\ Serve(c, MaxOwner)
           /\ GetPayrollData(requireAuth(sessions[c]))
    \/ \E c \in Browsers :
           /\ Serve(c, MaxOwner)
           /\ ClearPayrollData(requireAuth(sessions[c]))

SpecOwner == Init /\ [][NextOwner]_vars

(***************************************************************************)
(* Properties of the upload: what the extractors and the assemblers hand   *)
(* back for the request last served                                        *)
(***************************************************************************)
\* the request last served was an upload, and it was answered with 200
Uploaded == req.op = "process-pdf" /\ res.status = 200

\* the wanted codes of the upload
Wanted == SplitCodes(req.codes)

\* the items of all the records handed back
RECURSIVE ItemsOf(_)
ItemsOf(rs) == IF rs = <<>> THEN <<>> ELSE Head(rs).items \o ItemsOf(Tail(rs))

\* the lines of a page that print code c: the code is their first token
LinesOf(page, c) == SelectSeq(page, LAMBDA line : line # <<>> /\ Head(line) = c)

\* the period is printed on the page
HasPeriod(page) == \E k \in 1..Len(page) : page[k] = lnPeriod

\* the period the documents print
Period0422 == <<"0", "4", "/", "2", "0", "2", "2">>

\* a decimal number written out: digits, or digits '.' digits
IsNumber(c) ==
    LET n == Len(Prefix(c, Digits))
    IN /\ n > 0
       /\ \/ n = Len(c)
          \/ /\ n + 1 < Len(c)
             /\ c[n + 1] = "."
             /\ AllIn(SubSeq(c, n + 2, Len(c)), Digits)

\* the amount a value text stands for, every '.' removed and the decimal ','
\* turned into '.'; NaN when what is left is not a number
Amount(t) == IF IsNumber(CleanValue(t)) THEN parseFloat(CleanValue(t)) ELSE NaN

\* the amount printed on a line: its last token
LineAmount(line) == Amount(line[Len(line)])

\* C1: every item of every record the upload hands back has a code of the
\* wanted-code list, for either source
C1_OnlyWantedCodes ==
    Uploaded =>
        \A k \in 1..Len(ItemsOf(results)) :
            \E w \in 1..Len(Wanted) : ItemsOf(results)[k].code = Wanted[w]

\* an ERP upload of the page that prints 0002 and 0003, only 0002 wanted,
\* handed back an item
C1_Witness ==
    /\ Uploaded
    /\ req.source = "ERP"
    /\ req.file = docValues
    /\ Wanted = <<c0002>>
    /\ Len(ItemsOf(results)) = 1
    /\ ItemsOf(results)[1].code = c0002

\* C2: when the line of a wanted code is printed twice on a page, with the
\* amounts v1 and v2, the records handed back hold exactly one item of that
\* code and its value is v1 + v2
C2_TwiceIsSum ==
    Uploaded =>
        \A p \in 1..Len(req.file.pages) : \A w \in 1..Len(Wanted) :
            LET lines == LinesOf(req.file.pages[p], Wanted[w])
                items == SelectSeq(ItemsOf(results), LAMBDA it : it.code = Wanted[w])
            IN (Len(req.file.pages) = 1 /\ Len(lines) = 2)
                   => /\ Len(items) = 1
                      /\ items[1].value = LineAmount(lines[1]) + LineAmount(lines[2])

\* no page of the document prints the line of a wanted code
NoWantedLine(file, codes) ==
    \A p \in 1..Len(file.pages) : \A w \in 1..Len(codes) :
        LinesOf(file.pages[p], codes[w]) = <<>>

\* C3: when no page of the document prints the line of a wanted code, the
\* upload hands back exactly the one placeholder: no items, the month and
\* year of the moment, the source of the request
C3_PlaceholderWhenNoItems ==
    [][(/\ served' = served + 1
        /\ req'.op = "process-pdf"
        /\ res'.status = 200
        /\ NoWantedLine(req'.file, SplitCodes(req'.codes)))
           => results' = <<[date |-> CurrentDate(now'), items |-> <<>>,
                            source |-> req'.source]>>]_vars

\* token t is the short form of code c: fewer than four digits that give c
\* when zeros are put before them
ShortOf(t, c) == t # <<>> /\ Len(t) < 4 /\ AllIn(t, Digits) /\ padStart4(t) = c

\* an item of code c and value v is among the items
HasItem(items, c, v) ==
    \E k \in 1..Len(items) : items[k].code = c /\ items[k].value = v

\* C6: for source RH, a line whose code token is "2" or "02" gives an item
\* under the wanted code "0002" with the value of the line, from the
\* extractor of rh-extractor.ts as from the RH extractor of pdf-extractor.ts
C6_ShortCodePadded ==
    (Uploaded /\ req.source = "RH") =>
        \A p \in 1..Len(req.file.pages) : \A w \in 1..Len(Wanted) :
            \A k \in 1..Len(req.file.pages[p]) :
                LET line == req.file.pages[p][k]
                IN (line # <<>> /\ ShortOf(Head(line), Wanted[w]))
                       => /\ HasItem(ItemsOf(results), Wanted[w], LineAmount(line))
                          /\ HasItem(extractRHPayrollItems(req.file.pages[p], Wanted),
                                     Wanted[w], LineAmount(line))

\* C7: on a page that prints its period and one line of a wanted code, the
\* code has one item whose value is the amount of the line ("1.234,56" is
\* 1234.56, "45,00" is 45.0), and no item when the value text of the line is
\* not a number ("12,3,4"); the lines after it are read all the same
C7_ValueParsedOrDropped ==
    Uploaded =>
        \A p \in 1..Len(req.file.pages) : \A w \in 1..Len(Wanted) :
            LET lines == LinesOf(req.file.pages[p], Wanted[w])
                items == SelectSeq(ItemsOf(results), LAMBDA it : it.code = Wanted[w])
            IN (Len(req.file.pages) = 1 /\ HasPeriod(req.file.pages[p]) /\ Len(lines) = 1)
                   => IF isNaN(LineAmount(lines[1])) THEN items = <<>>
                      ELSE Len(items) = 1 /\ items[1].value = LineAmount(lines[1])

\* C8: an upload of bytes that do not open as a document is answered with
\* the processing error, hands back no record and stores none
C8_CorruptIsOneFailure ==
    [][(served' = served + 1 /\ req'.op = "process-pdf" /\ req'.file.corrupt)
           => /\ res'.status = 500
              /\ results' = <<>>
              /\ payrollData' = payrollData]_vars

\* C9: every record with items carries the period printed on a page, there
\* are no more of them than pages that print one, and a page that prints its
\* period and the line of a wanted code has its record whatever came before
C9_NoPeriodNoRecord ==
    Uploaded =>
        /\ \A k \in 1..Len(results) :
               results[k].items # <<>> => results[k].date = Period0422
        /\ Len(SelectSeq(results, LAMBDA r : r.items # <<>>))
               <= Cardinality({p \in 1..Len(req.file.pages) : HasPeriod(req.file.pages[p])})
        /\ \A p \in 1..Len(req.file.pages) :
               (/\ HasPeriod(req.file.pages[p])
                /\ \E w \in 1..Len(Wanted) : LinesOf(req.file.pages[p], Wanted[w]) # <<>>)
                   => \E k \in 1..Len(results) :
                          results[k].date = Period0422 /\ results[k].items # <<>>

(***************************************************************************)
(* Properties of the consolidated table                                    *)
(***************************************************************************)
\* the request last served was GET /payroll-data
Consolidated == req.op = "payroll-data" /\ res.status = 200

\* the display code a raw code resolves to for user u
Resolve(u, code) ==
    DisplayOf(codeToDisplayMap(getCodeGroupsByUserId(codeGroups, u)), code)

\* the items user u has stored on a date, over all the records
RECURSIVE StoredItems(_, _, _)
StoredItems(data, u, date) ==
    IF data = <<>> THEN <<>>
    ELSE (IF Head(data).userId = u /\ Head(data).date = date
          THEN parse(Head(data).codeData) ELSE <<>>)
         \o StoredItems(Tail(data), u, date)

\* the sum of the values of the items that resolve to a display code
RECURSIVE SumFor(_, _, _)
SumFor(items, u, displayCode) ==
    IF items = <<>> THEN 0
    ELSE (IF Resolve(u, Head(items).code) = displayCode THEN Head(items).value ELSE 0)
         + SumFor(Tail(items), u, displayCode)

\* the dates of user u in the order of the rows
RowDates(u) == uniqueDates(getPayrollDataByUserId(payrollData, u), <<>>)

Kept(rs) == SelectSeq(rs, LAMBDA r : r.date # <<>> /\ r.items # <<>>)

\* the storage holds what the upload last served stored, and nothing else
OnlyFirstStored ==
    /\ Len(payrollData) = Len(Kept(results))
    /\ \A k \in 1..Len(payrollData) :
           /\ payrollData[k].userId = req.user
           /\ payrollData[k].date = Kept(results)[k].date
           /\ payrollData[k].source = req.source
           /\ parse(payrollData[k].codeData) = Kept(results)[k].items

\* the step serves again the upload served last
SameUploadAgain ==
    /\ served' = served + 1
    /\ req.op = "process-pdf"
    /\ req' = req
    /\ res.status = 200
    /\ res'.status = 200

\* C10: an upload served a second time stores as many new records as the
\* first, leaves the records of the first as they are, and every value of
\* the consolidated table after the first is doubled after the second
C10_SecondUploadDoubles ==
    [][(SameUploadAgain /\ OnlyFirstStored)
           => /\ Len(payrollData') - Len(payrollData) = Len(Kept(results))
              /\ SubSeq(payrollData', 1, Len(payrollData)) = payrollData
              /\ LET first == Consolidate(payrollData, codeGroups, req.user)
                     second == Consolidate(payrollData', codeGroups', req.user)
                 IN \A i \in 1..Len(first.data) : \A k \in 1..Len(first.codes) :
                        second.data[i][first.codes[k]].v
                            = 2 * first.data[i][first.codes[k]].v]_vars

(***************************************************************************)
(* Isolation of users                                                      *)
(***************************************************************************)
\* records and code groups as the storage would hold them for a user 2
ForeignData ==
    << [id |-> 90, userId |-> 2, source |-> "ERP",
        date |-> <<"0", "4", "/", "2", "0", "2", "2">>,
        codeData |-> stringify(<< [code |-> c0002, description |-> <<sVENC>>,
                                   value |-> 99900] >>)] >>

ForeignGroups ==
    << [id |-> 90, userId |-> 2, displayName |-> <<"X">>, codes |-> <<c0002, c0003>>] >>

RECURSIVE MapSum(_, _, _)
MapSum(items, map, displayCode) ==
    IF items = <<>> THEN 0
    ELSE (IF DisplayOf(map, Head(items).code) = displayCode THEN Head(items).value ELSE 0)
         + MapSum(Tail(items), map, displayCode)

\* every column of the body is the display code the map gives to a stored
\* item, and every value is the sum over the items the map resolves to it
OneMapping(body, data, u, map, dates) ==
    /\ Len(body.data) = Len(dates)
    /\ \A i \in 1..Len(dates) :
           \A m \in 1..Len(StoredItems(data, u, dates[i])) :
               DisplayOf(map, StoredItems(data, u, dates[i])[m].code) \in Range(body.codes)
    /\ \A i \in 1..Len(dates) : \A k \in 1..Len(body.codes) :
           /\ body.codes[k] \in DOMAIN body.data[i]
           /\ body.data[i][body.codes[k]] =
                  Num(MapSum(StoredItems(data, u, dates[i]), map, body.codes[k]))

\* the response of the consolidation that has just ended
Answered == inflight.pc = "done" /\ req.op = "payroll-data" /\ res.status = 200

\* C12: the columns and the values of a consolidated result are those of one
\* mapping, the one of the code groups the request read, whatever creates,
\* updates and deletes of code groups were served while it was in flight
C12_OneMapping ==
    Answered =>
        OneMapping(res.body, inflight.payrollData, inflight.user,
                   codeToDisplayMap(inflight.codeGroups),
                   uniqueDates(inflight.payrollData, <<>>))

\* a result with a row, given after the code groups changed under the
\* request: an item resolves differently by the groups read and by the
\* groups stored now
C12_Witness ==
    /\ Answered
    /\ Len(res.body.data) > 0
    /\ \E m \in 1..Len(parse(inflight.payrollData[1].codeData)) :
           DisplayOf(codeToDisplayMap(inflight.codeGroups),
                     parse(inflight.payrollData[1].codeData)[m].code)
             # Resolve(inflight.user, parse(inflight.payrollData[1].codeData)[m].code)

(***************************************************************************)
(* What an upload stores                                                   *)
(***************************************************************************)
\* the payslips of a result that have items
WithItems(rs) == SelectSeq(rs, LAMBDA r : r.items # <<>>)

\* record rec holds payslip p of the upload of user u from the source
RecordOf(rec, p, u, source) ==
    /\ rec.userId = u
    /\ rec.date = p.date
    /\ rec.source = source
    /\ parse(rec.codeData) = p.items

\* C13: an upload answered 200 keeps the stored records and adds, in order,
\* one record for each returned payslip that has items, with the user, the
\* date and items of the payslip and the source of the request; no stored
\* record is without items
C13_OneRecordPerPayslip ==
    [][(/\ served' = served + 1
        /\ req'.op = "process-pdf"
        /\ res'.status = 200)
           => /\ Len(payrollData') = Len(payrollData) + Len(WithItems(results'))
              /\ SubSeq(payrollData', 1, Len(payrollData)) = payrollData
              /\ \A k \in 1..Len(WithItems(results')) :
                     RecordOf(payrollData'[Len(payrollData) + k], WithItems(results')[k],
                              req'.user, req'.source)
              /\ \A k \in 1..Len(payrollData') :
                     parse(payrollData'[k].codeData) # <<>>]_vars

\* an upload that stored two records is followed by one that returns only
\* the placeholder and stores nothing
C13_Witness ==
    /\ Uploaded
    /\ Len(results) = 1 /\ results[1].items = <<>>
    /\ Len(payrollData) = 2
    /\ payrollData[1].date # payrollData[2].date

(***************************************************************************)
(* The order and the contents of the records of a result                   *)
(***************************************************************************)
\* the record page i of the file gives by itself, for the source, the codes
\* and the clock: a sequence of one record, or of none
PageRecord(file, source, codes, clock, i) ==
    IF source = "ERP"
    THEN erpPushed(extractDate(erpExtractTextFromPDF(file)[i].text, source, clock),
                   extractERPPayrollItems(erpExtractTextFromPDF(file)[i].text, codes),
                   source)
    ELSE rhPushed(rhExtractDate(rhPageText(file.pages[i])),
                  extractPayrollItems(rhPageText(file.pages[i]), codes))

\* the records rs are those of pages of the file taken in page order: each
\* is the record of a page, and of two records the earlier is the record of
\* a page with the smaller number
InPageOrder(rs, file, source, codes, clock) ==
    /\ Len(rs) <= Len(file.pages)
    /\ \A k \in 1..Len(rs) :
           \E i \in 1..Len(file.pages) : <<rs[k]>> = PageRecord(file, source, codes, clock, i)
    /\ \A k \in 1..Len(rs) : \A l \in (k + 1)..Len(rs) :
           \E i \in 1..Len(file.pages) : \E j \in (i + 1)..Len(file.pages) :
               /\ <<rs[k]>> = PageRecord(file, source, codes, clock, i)
               /\ <<rs[l]>> = PageRecord(file, source, codes, clock, j)

\* C14: the records an upload returns, when they come from pages, are the
\* records of distinct pages in increasing page number
C14_PageOrder ==
    [][(/\ served' = served + 1
        /\ req'.op = "process-pdf"
        /\ res'.status = 200
        /\ WithItems(results') # <<>>)
           => InPageOrder(results', req'.file, req'.source, SplitCodes(req'.codes),
                          now')]_vars

\* two pages of the same period: the record of page 1 (100.00) stands before
\* the record of page 2 (200.00)
C14_Witness ==
    /\ Uploaded
    /\ req.file = docSame
    /\ Len(results) = 2
    /\ results[1].date = results[2].date
    /\ results[1].items[1].value = 10000
    /\ results[2].items[1].value = 20000

\* no page of the file gives a record
NoPageRecord(file, source, codes, clock) ==
    \A i \in 1..Len(file.pages) : PageRecord(file, source, codes, clock, i) = <<>>

\* C15: in the result of an upload every record has an item, unless the
\* result is one record without items and no page of the document gave a
\* record: the placeholder
C15_EmptyOnlyAsPlaceholder ==
    Uploaded =>
        \/ \A k \in 1..Len(results) : results[k].items # <<>>
        \/ /\ Len(results) = 1
           /\ results[1].items = <<>>
           /\ NoPageRecord(req.file, req.source, SplitCodes(req.codes), now)

\* the placeholder alone, for a document with a period and no wanted line
C15_Witness ==
    /\ Uploaded
    /\ req.file = docNoItems
    /\ req.source = "ERP"
    /\ Len(results) = 1
    /\ results[1].items = <<>>
    /\ payrollData = <<>>

\* C16: no two items of a returned record have the same code
C16_CodesUnique ==
    Uploaded =>
        \A k \in 1..Len(results) :
            \A a \in 1..Len(results[k].items) : \A b \in 1..Len(results[k].items) :
                results[k].items[a].code = results[k].items[b].code => a = b

(***************************************************************************)
(* Code groups and display codes                                           *)
(***************************************************************************)
\* C17: no raw code is listed in two code groups of the user
C17_CodeInOneGroup ==
    \A a \in 1..Len(codeGroups) : \A b \in 1..Len(codeGroups) :
        (a # b /\ codeGroups[a].userId = codeGroups[b].userId)
            => Range(SplitCodes(codeGroups[a].codes))
                   \cap Range(SplitCodes(codeGroups[b].codes)) = {}

\* the raw code is listed in a code group of user u
Grouped(u, code) ==
    \E g \in 1..Len(codeGroups) :
        codeGroups[g].userId = u /\ code \in Range(SplitCodes(codeGroups[g].codes))

\* C18: in the consolidated table, every stored item whose raw code is in
\* no code group of the user has a column named by its raw code
C18_UngroupedAsItself ==
    Consolidated =>
        \A i \in 1..Len(RowDates(req.user)) :
            \A m \in 1..Len(StoredItems(payrollData, req.user, RowDates(req.user)[i])) :
                ~Grouped(req.user, StoredItems(payrollData, req.user,
                                               RowDates(req.user)[i])[m].code)
                    => StoredItems(payrollData, req.user, RowDates(req.user)[i])[m].code
                           \in Range(res.body.codes)

\* the items user u has stored, in the order of the records
RECURSIVE AllItems(_, _)
AllItems(data, u) ==
    IF data = <<>> THEN <<>>
    ELSE (IF Head(data).userId = u THEN parse(Head(data).codeData) ELSE <<>>)
         \o AllItems(Tail(data), u)

\* the description of the first of the items that has the raw code
FirstDescription(items, code) ==
    Joined(items[Min({m \in 1..Len(items) : items[m].code = code})].description)

\* the description the column of item m should carry
ColumnDescription(items, u, m) ==
    IF Grouped(u, items[m].code) THEN Resolve(u, items[m].code)
    ELSE FirstDescription(items, items[m].code)

\* C19: the codeInfo entry of the column a stored item is reported in
\* carries the display name of the item's code group, and when the item's
\* raw code is in no group, the description of the first stored item that
\* has the raw code
C19_ColumnDescription ==
    Consolidated =>
        \A k \in 1..Len(res.body.codeInfo) :
            \A m \in 1..Len(AllItems(payrollData, req.user)) :
                Resolve(req.user, AllItems(payrollData, req.user)[m].code)
                        = res.body.codeInfo[k].code
                    => res.body.codeInfo[k].description
                           = ColumnDescription(AllItems(payrollData, req.user), req.user, m)

(***************************************************************************)
(* C20: the exports against the consolidated table                         *)
(***************************************************************************)
Exported == req.op \in {"export-json", "export-csv"} /\ res.status = 200

\* the row of the JSON export for a date shows the amount under some key
JsonShows(body, date, v) ==
    \E i \in 1..Len(body) :
        /\ body[i][sDate] = Str(date)
        /\ \E key \in DOMAIN body[i] \ {sDate} : body[i][key] = Str(formatCurrency(v))

\* the row of a sheet for a date shows the amount in some cell
SheetShows(rows, date, v) ==
    \E i \in 2..Len(rows) :
        /\ rows[i][1] = Str(date)
        /\ \E k \in 2..Len(rows[i]) : rows[i][k] = Num(v)

ExportShows(date, v) ==
    IF req.op = "export-json" THEN JsonShows(res.body, date, v)
    ELSE SheetShows(res.body.VANTAGENS, date, v) \/ SheetShows(res.body.DESCONTOS, date, v)

\* the cells of the consolidated table that hold an amount other than zero
TableShown(table) ==
    \A i \in 1..Len(table.data) :
        \A k \in 1..Len(table.codes) :
            table.data[i][table.codes[k]].v # 0
                => ExportShows(table.data[i][sDate].v, table.data[i][table.codes[k]].v)

\* C20: after an export, every amount the consolidated table of the user
\* holds for a date and a column (the sum of the items of that date whose
\* code resolves to the column) is the amount the export shows for that
\* date in one of its columns: the JSON export as 'R$ n,nn', the
\* spreadsheet export as the number.
C20_ExportsAsTable ==
    Exported => TableShown(Consolidate(payrollData, codeGroups, req.user))

(***************************************************************************)
(* The sums as the Number type computes them: item.value and the cells of  *)
(* a row are IEEE 754 doubles, and + rounds its result to 53 bits, ties to *)
(* even.  A double between 32 and 1024 is a whole number of units of       *)
(* 2^-47; it is kept as that number, in two limbs of 28 bits               *)
(***************************************************************************)
HexDigits == <<"0", "1", "2", "3", "4", "5", "6", "7", "8", "9",
               "a", "b", "c", "d", "e", "f">>

HexValue(d) == CHOOSE v \in 0..15 : HexDigits[v + 1] = d

RECURSIVE HexInt(_)
HexInt(ds) ==
    IF ds = <<>> THEN 0
    ELSE HexInt(SubSeq(ds, 1, Len(ds) - 1)) * 16 + HexValue(ds[Len(ds)])

Limb == 2 ^ 28

\* the double whose count of units is written with 14 hex digits
Double(ds) == [hi |-> HexInt(SubSeq(ds, 1, 7)), lo |-> HexInt(SubSeq(ds, 8, 14))]

Zero == [hi |-> 0, lo |-> 0]

\* parseFloat of the value text of an amount, the amount in hundredths:
\* 45.30 = 0x1.6a66666666666p+5, 100.10 = 0x1.9066666666666p+6,
\* 200.20 = 0x1.9066666666666p+7 and 350.75 = 0x1.5ec0000000000p+8
parsedNumber ==
    (4530 :> Double(<<"1", "6", "a", "6", "6", "6", "6", "6", "6", "6", "6", "6", "6", "6">>))
    @@ (10010 :> Double(<<"3", "2", "0", "c", "c", "c", "c", "c", "c", "c", "c", "c", "c", "c">>))
    @@ (20020 :> Double(<<"6", "4", "1", "9", "9", "9", "9", "9", "9", "9", "9", "9", "9", "8">>))
    @@ (35075 :> Double(<<"a", "f", "6", "0", "0", "0", "0", "0", "0", "0", "0", "0", "0", "0">>))

\* the number of bits of a limb
RECURSIVE BitLen(_)
BitLen(n) == IF n = 0 THEN 0 ELSE 1 + BitLen(n \div 2)

\* a count of units rounded to 53 bits: the k bits beyond them are cut off,
\* and the count goes up by one place when they are more than half a
\* place, or half a place with the last bit kept odd
RoundDouble(x) ==
    LET k == BitLen(x.hi) + 28 - 53
        rem == x.lo % (2 ^ k)
        up == \/ 2 * rem > 2 ^ k
              \/ (2 * rem = 2 ^ k /\ (x.lo \div (2 ^ k)) % 2 = 1)
        lo == x.lo - rem + (IF up THEN 2 ^ k ELSE 0)
    IN IF k <= 0 THEN x
       ELSE [hi |-> x.hi + lo \div Limb, lo |-> lo % Limb]

\* a + b for doubles
addDouble(a, b) ==
    RoundDouble([hi |-> a.hi + b.hi + (a.lo + b.lo) \div Limb,
                 lo |-> (a.lo + b.lo) % Limb])

\* the cell of a display code after the items: it starts as the number 0,
\* and each item of the display code is added to it, in the order stored
RECURSIVE cellDouble(_, _, _, _)
cellDouble(cell, items, map, displayCode) ==
    IF items = <<>> THEN cell
    ELSE cellDouble(IF DisplayOf(map, Head(items).code) = displayCode
                    THEN addDouble(cell, parsedNumber[Head(items).value])
                    ELSE cell,
                    Tail(items), map, displayCode)

\* the cells of the table of a user: for each date and display code, the
\* Number the row holds
CellsDouble(allData, allGroups, userId) ==
    LET data == getPayrollDataByUserId(allData, userId)
        map == codeToDisplayMap(getCodeGroupsByUserId(allGroups, userId))
    IN [date \in Range(uniqueDates(data, <<>>)) |->
           [displayCode \in Range(uniqueDisplayCodes(data, map, <<>>)) |->
               cellDouble(Zero, dateItems(data, date), map, displayCode)]]

\* the amounts of the payslips stored in two orders
Amounts == {4530, 10010, 20020, 35075}

\* the record createPayrollData stores for a payslip of 12/2026 with one
\* item of code 0003
PayslipOf(id, amount) ==
    [id |-> id, userId |-> 1, source |-> "ERP",
     date |-> <<"1", "2", "/", "2", "0", "2", "6">>,
     codeData |-> stringify(<< [code |-> c0003, description |-> <<sINSS>>,
                                value |-> amount] >>)]

\* the orders of three payslips
Orders == { p \in [1..3 -> 1..3] : \A i, j \in 1..3 : p[i] = p[j] => i = j }

\* GET /payroll-data over the same three payslips stored in two orders
ConsolidateOrders(amounts, order) ==
    /\ req.op = "none"
    /\ req' = [op |-> "payroll-data-orders", user |-> 1,
               first |-> << PayslipOf(1, amounts[1]), PayslipOf(2, amounts[2]),
                            PayslipOf(3, amounts[3]) >>,
               second |-> << PayslipOf(1, amounts[order[1]]),
                             PayslipOf(2, amounts[order[2]]),
                             PayslipOf(3, amounts[order[3]]) >>]
    /\ res' = [status |-> 200,
               first |-> [table |-> Consolidate(req'.first, codeGroups, 1),
                          cells |-> CellsDouble(req'.first, codeGroups, 1)],
               second |-> [table |-> Consolidate(req'.second, codeGroups, 1),
                           cells |-> CellsDouble(req'.second, codeGroups, 1)]]
    /\ UNCHANGED <<payrollData, currentPayrollId, codeGroups, currentCodeGroupId,
                   templates, currentTemplateId, now, results, served, session,
                   sessions, inflight>>

NextOrders ==
    \E amounts \in [1..3 -> Amounts], order \in Orders : ConsolidateOrders(amounts, order)

SpecOrders == Init /\ [][NextOrders]_vars

(***************************************************************************)
(* The functions of the extractors applied to the text of one page: the    *)
(* period resolvers and the item extractors of both files                  *)
(***************************************************************************)
\* "Abril/2022", "abril de 2022" and "Emitido 01/2020"
lnAbril == << <<"A", "b", "r", "i", "l", "/", "2", "0", "2", "2">> >>

lnAbrilDe == << <<"a", "b", "r", "i", "l">>, sDe, <<"2", "0", "2", "2">> >>

\* "Maio/2023"
lnMaio == << <<"M", "a", "i", "o", "/", "2", "0", "2", "3">> >>

lnIssued == << <<"E", "m", "i", "t", "i", "d", "o">>,
               <<"0", "1", "/", "2", "0", "2", "0">> >>

\* "0002 VENC 100,00": the value printed without the currency marker
lnNoCur == <<c0002, sVENC, <<"1", "0", "0", ",", "0", "0">> >>

\* the pages: the period as a label, as a month name, as a bare date, or
\* absent, with a bare date before it or not; the lines of the codes in
\* both orders
Pages ==
    { <<lnPeriod, ln1234, ln45>>,
      <<lnIssued, lnPeriod, ln45, ln1234>>,
      <<lnAbril, ln1234, ln45>>,
      <<lnIssued, lnAbril, ln45, ln1234>>,
      <<lnAbrilDe, ln45>>,
      <<lnIssued, lnAbrilDe, ln1234>>,
      <<lnTitle, ln100>>,
      <<lnIssued, ln1234, ln45>>,
      <<lnPeriod, lnNoCur>>,
      <<lnPeriod, ln100>>,
      <<lnPeriod, lnNoCur, ln45>>,
      <<lnAbril, lnIssued, ln45>>,
      <<lnIssued, lnPeriod, lnMaio, ln45>> }

\* the wanted-code lists
CodeLists == { <<c0002>>, <<c0003>>, <<c0002, c0003>>, <<c0003, c0002>>, <<>> }

\* the functions applied to a page: extractDate of pdf-extractor.ts for
\* each source, extractDate of rh-extractor.ts, and the item extractors
\* processPDF of each file calls
ExtractPage(page, codes) ==
    /\ req' = [op |-> "page", page |-> page, codes |-> codes]
    /\ res' = [status |-> 200,
               erpDate |-> extractDate(page, "ERP", now),
               pdfRhDate |-> extractDate(page, "RH", now),
               rhDate |-> rhExtractDate(rhPageText(page)),
               erpItems |-> extractERPPayrollItems(page, codes),
               rhItems |-> extractPayrollItems(rhPageText(page), codes)]
    /\ UNCHANGED <<payrollData, currentPayrollId, codeGroups, currentCodeGroupId,
                   templates, currentTemplateId, now, results, served, session,
                   sessions, inflight>>

NextPage ==
    \/ \E page \in Pages, codes \in CodeLists : ExtractPage(page, codes)
    \/ Tick

SpecPage == Init /\ [][NextPage]_vars

(***************************************************************************)
(* C21: the routes behind requireAuth, login and logout                    *)
(***************************************************************************)
\* what MemStorage holds
Stored == <<payrollData, currentPayrollId, codeGroups, currentCodeGroupId>>

\* C21: a request to a route behind requireAuth (upload, payroll-data,
\* clear, export, code groups) on a session for which the store holds no
\* userId is answered 401 and leaves the storage as it was; a logout leaves
\* the session without userId; and a session gets a userId only by a login
\* on that session that is answered 200.  So a session is refused before
\* its first login, and after a logout until its next login.
C21_LoginGuards ==
    [][ \A c \in Cookies :
            /\ (served' = served + 1 /\ session'.id = c /\ sessions[c] = 0)
                   => (res'.status = 401 /\ Stored' = Stored)
            /\ (req'.op = "logout" /\ session'.id = c) => sessions'[c] = 0
            /\ (sessions'[c] # 0 /\ sessions[c] = 0)
                   => (req'.op = "login" /\ res'.status = 200 /\ session'.id = c) ]_vars

\* a request on the session of browser 1, which has no userId, is refused
\* after browser 2 logged in and uploaded a payslip
C21_Witness ==
    /\ req.op = "unauthorized" /\ res.status = 401
    /\ session = [id |-> 1, userId |-> 0]
    /\ sessions[2] = 1
    /\ payrollData # <<>>

(***************************************************************************)
(* C22: what a clear removes and what it leaves                            *)
(***************************************************************************)
\* the records of the users other than u
OthersData(data, u) == SelectSeq(data, LAMBDA d : d.userId # u)

\* C22: after POST /payroll-data/clear by user U the storage holds no
\* payroll record of U and U's consolidated table has no row; the records
\* of every other user are the ones held before, also when the storage
\* holds records of a user 2; the templates and the code groups are the
\* ones held before.
C22_ClearFrame ==
    [][ (req'.op = "clear" /\ served' = served + 1) =>
            /\ getPayrollDataByUserId(payrollData', req'.user) = <<>>
            /\ Consolidate(payrollData', codeGroups', req'.user).data = <<>>
            /\ OthersData(payrollData', req'.user) = OthersData(payrollData, req'.user)
            /\ OthersData(clearPayrollDataByUserId(ForeignData \o payrollData, req'.user),
                          req'.user) = ForeignData
            /\ templates' = templates
            /\ codeGroups' = codeGroups ]_vars

\* a clear is served after a template and a code group were created and a
\* payslip was stored
C22_Witness ==
    /\ req.op = "clear" /\ res.status = 200
    /\ payrollData = <<>> /\ currentPayrollId > 1
    /\ templates # <<>>
    /\ codeGroups # <<>>

(***************************************************************************)
(* C23: stored payroll records are never rewritten                         *)
(***************************************************************************)
\* a record of the second storage that has the id of a record of the first
\* is that record
SameRecords(before, after) ==
    \A i \in 1..Len(after) : \A j \in 1..Len(before) :
        after[i].id = before[j].id => after[i] = before[j]

\* the request served by the step
ServedOp(op) == served' = served + 1 /\ req'.op = op

\* C23: in every step, a payroll record that is stored before and after
\* the step has the same date, source and items; an upload leaves the
\* records held before in place and adds its own after them; a clear
\* removes the records of its caller and no other; and every other step
\* (a consolidation read, an export, a create, update or delete of a code
\* group, a refused request, a login, a logout) leaves the records as they
\* are.
C23_RecordsKept ==
    [][ /\ SameRecords(payrollData, payrollData')
        /\ ServedOp("process-pdf")
               => (/\ Len(payrollData') >= Len(payrollData)
                   /\ SubSeq(payrollData', 1, Len(payrollData)) = payrollData)
        /\ ServedOp("clear") => payrollData' = OthersData(payrollData, req'.user)
        /\ ~(ServedOp("process-pdf") \/ ServedOp("clear"))
               => payrollData' = payrollData ]_vars

\* a code group is updated while the storage holds records of an ERP
\* upload and of an RH upload
C23_Witness ==
    /\ req.op = "update-code-group" /\ res.status = 200
    /\ Len(payrollData) = 2
    /\ payrollData[1].source # payrollData[2].source

(***************************************************************************)
(* C24: the table does not depend on the order the payslips are stored in  *)
(***************************************************************************)
OrdersServed == req.op = "payroll-data-orders" /\ res.status = 200

\* C24: the consolidated tables of the same payslips stored in two orders
\* have the same set of dates and the same set of display codes, and for
\* every date and display code the same value, the value being the Number
\* the row holds.
C24_OrderIndependent ==
    OrdersServed =>
        /\ {res.first.table.data[i][sDate] : i \in 1..Len(res.first.table.data)}
               = {res.second.table.data[i][sDate] : i \in 1..Len(res.second.table.data)}
        /\ Range(res.first.table.codes) = Range(res.second.table.codes)
        /\ res.first.cells = res.second.cells

(***************************************************************************)
(* C25: the shape of the dates of the period resolvers                     *)
(***************************************************************************)
PageServed == req.op = "page" /\ res.status = 200

\* two digits, "/", four digits
MonthYear(d) == Len(d) = 7 /\ DateAt(d, 1)

\* C25: every date a period resolver returns for a page, for the ERP source
\* and for the RH source, has the shape two digits, "/", four digits; a page
\* dated by a Portuguese month name gets the number of the month, never the
\* name.  (extractDate of rh-extractor.ts returns null when no rule matches;
\* null is no date and the page is skipped.)
C25_DateShape ==
    PageServed =>
        /\ MonthYear(res.erpDate)
        /\ MonthYear(res.pdfRhDate)
        /\ res.rhDate # <<>> => MonthYear(res.rhDate)

(***************************************************************************)
(* C26: the order of the items of a page                                   *)
(***************************************************************************)
\* where the code first stands among the tokens of the page
FirstSeen(page, code) ==
    Min({k \in 1..Len(Flatten(page)) : Flatten(page)[k] = code})

\* every item stands after the items whose codes occur earlier on the page
FirstSeenOrder(page, items) ==
    \A i, j \in 1..Len(items) :
        i < j => FirstSeen(page, items[i].code) < FirstSeen(page, items[j].code)

\* C26: for the ERP extractor and for the RH extractor, the items returned
\* for a page are ordered by where their codes first occur on the page,
\* whatever the order of the wanted-code list.
C26_FirstSeenOrder ==
    PageServed =>
        /\ FirstSeenOrder(req.page, res.erpItems)
        /\ FirstSeenOrder(req.page, res.rhItems)

\* the ERP half of C26 alone
C26_ErpOrder == PageServed => FirstSeenOrder(req.page, res.erpItems)

(***************************************************************************)
(* C27: the currency marker of an ERP line                                 *)
(***************************************************************************)
\* the lines made of a 4-digit code, a description and a currency-formatted
\* number, the number prefixed by the marker or not
CodeLines == {ln100, ln1234, ln45, lnNoCur}

\* the item of the line's code has the value of the number the line ends with
ValueOfLine(line, items) ==
    \E i \in 1..Len(items) :
        /\ items[i].code = line[1]
        /\ items[i].value = parseFloat(CleanValue(line[Len(line)]))

\* C27: for an ERP line made of a wanted 4-digit code, a description and a
\* currency-formatted number, the item returned for the code has that number
\* as its value, with the currency marker before the number and without it
\* (every page of the model holds at most one line per code).
C27_MarkerOptional ==
    PageServed =>
        \A k \in 1..Len(req.page) :
            (req.page[k] \in CodeLines /\ includes(req.codes, req.page[k][1]))
                => ValueOfLine(req.page[k], res.erpItems)

\* the same for the lines that carry the marker
C27_WithMarker ==
    PageServed =>
        \A k \in 1..Len(req.page) :
            (req.page[k] \in CodeLines \ {lnNoCur} /\ includes(req.codes, req.page[k][1]))
                => ValueOfLine(req.page[k], res.erpItems)

(***************************************************************************)
(* C28: the priority of the rules of the period resolvers                  *)
(***************************************************************************)
OnPage(page, line) == \E k \in 1..Len(page) : page[k] = line

\* the first line of the page that is one of the lines
FirstOf(page, lines) == page[Min({k \in 1..Len(page) : page[k] \in lines})]

\* the period a dated line of the model states, as MM/YYYY
PeriodOf(line) ==
    IF line = lnPeriod THEN lnPeriod[4]
    ELSE IF line = lnIssued THEN lnIssued[2]
    ELSE IF line = lnMaio THEN <<"0", "5", "/", "2", "0", "2", "3">>
    ELSE <<"0", "4", "/", "2", "0", "2", "2">>

\* C28: a period resolver returns what the first rule of its priority order
\* that matches gives.  extractDate of pdf-extractor.ts for ERP: the date
\* after the label wherever the label stands, else the first bare MM/YYYY.
\* For RH: the month name followed by /year wherever it stands (returned as
\* that rule gives it), else the date after the label, else the first bare
\* MM/YYYY.  extractDate of rh-extractor.ts: the month-name rule wherever a
\* month name and year stand, else the first bare date of the page (to this
\* resolver the date after the label is a bare date).  An unrelated bare
\* date earlier on the page changes none of these.
C28_FirstRuleWins ==
    PageServed =>
        LET page == req.page
            label == OnPage(page, lnPeriod)
            bare == OnPage(page, lnIssued)
            slashed == OnPage(page, lnAbril) \/ OnPage(page, lnMaio)
            named == slashed \/ OnPage(page, lnAbrilDe)
        IN /\ label => res.erpDate = lnPeriod[4]
           /\ (~label /\ bare) => res.erpDate = lnIssued[2]
           /\ slashed => res.pdfRhDate = FirstOf(page, {lnAbril, lnMaio})[1]
           /\ (~slashed /\ label) => res.pdfRhDate = lnPeriod[4]
           /\ (~slashed /\ ~label /\ bare) => res.pdfRhDate = lnIssued[2]
           /\ named => res.rhDate = PeriodOf(FirstOf(page, {lnAbril, lnAbrilDe, lnMaio}))
           /\ (~named /\ (label \/ bare))
                  => res.rhDate = PeriodOf(FirstOf(page, {lnPeriod, lnIssued}))

\* a page that opens with the bare date 01/2020, followed by the label with
\* 04/2022 and by "Maio/2023": the ERP resolver returned the date of the
\* label and the resolver of rh-extractor.ts the month of the name
C28_Witness ==
    /\ PageServed
    /\ req.page = <<lnIssued, lnPeriod, lnMaio, ln45>>
    /\ res.erpDate = lnPeriod[4]
    /\ res.rhDate = <<"0", "5", "/", "2", "0", "2", "3">>

(***************************************************************************)
(* C29: the date field of the rows of the consolidated table               *)
(***************************************************************************)
\* C29: every row of the consolidated table holds in its date field the
\* period of the stored records it sums, a string, whatever the item codes
\* stored and the display names of the code groups of the user, a display
\* name "date" included.
C29_DateKept ==
    Consolidated =>
        /\ Len(res.body.data) = Len(RowDates(req.user))
        /\ \A i \in 1..Len(res.body.data) :
               /\ res.body.data[i][sDate].t = "string"
               /\ res.body.data[i][sDate].v = RowDates(req.user)[i]

\* the same, as long as no column of the table is called "date"
C29_DateKeptUnlessNamed ==
    (Consolidated /\ sDate \notin Range(res.body.codes)) =>
        /\ Len(res.body.data) = Len(RowDates(req.user))
        /\ \A i \in 1..Len(res.body.data) :
               /\ res.body.data[i][sDate].t = "string"
               /\ res.body.data[i][sDate].v = RowDates(req.user)[i]

(***************************************************************************)
(* C30: updates and deletes of what is not there or not the caller's       *)
(***************************************************************************)
TemplateOps == {"update-template", "delete-template"}

CodeGroupOps == {"update-code-group", "delete-code-group"}

\* the step serves an update or a delete of a template or of a code group
OwnedOpServed ==
    /\ served' = served + 1
    /\ req'.op \in TemplateOps \cup CodeGroupOps

\* the collection the request addresses, as it is stored before the step
Addressed == IF req'.op \in TemplateOps THEN templates ELSE codeGroups

\* the answer the step owes: 404 for an id that is not stored, 403 for an
\* entry of another user, and in both cases nothing changed
OwnerGuards ==
    LET k == GroupIndex(Addressed, req'.id)
    IN /\ k = 0 => res'.status = 404
       /\ (k # 0 /\ Addressed[k].userId # req'.user) => res'.status = 403
       /\ (k = 0 \/ Addressed[k].userId # req'.user)
              => (templates' = templates /\ codeGroups' = codeGroups)

\* C30: an update or delete of a template or code group whose id does not
\* exist is answered 404, one requested by a user who is not the owner is
\* answered 403, and in both cases every template and code group is left
\* unchanged.
C30_OwnerGuards == [][OwnedOpServed => OwnerGuards]_vars

\* the same for the deletes and for the updates whose body passes the schema
C30_ValidBodyGuards ==
    [][(OwnedOpServed /\ res'.status # 400) => OwnerGuards]_vars

====
